---------------------------- MODULE Spec2Model ----------------------------
(***************************************************************************)
(* A model of the omegaUp public-courses synchronisation utilities:        *)
(*   - utils/upload.py: reconciliation of admins, admin groups and tags    *)
(*     at the end of uploadProblemZip (specification SpecUpload);          *)
(*   - utils/update_assignment_problems.py: the course-sync workflow, and  *)
(*     utils/download_and_sync_courses.py: the full course download        *)
(*     (specification SpecSync).                                           *)
(***************************************************************************)
EXTENDS Naturals, Integers, Sequences, FiniteSets, TLC

(***************************************************************************)
(* Strings.  Python's str.lower() and str.startswith() computed character  *)
(* by character.                                                           *)
(***************************************************************************)
UpperChars == "ABCDEFGHIJKLMNOPQRSTUVWXYZ"
LowerChars == "abcdefghijklmnopqrstuvwxyz"

CharAt(s, i) == SubSeq(s, i, i)

\* str.lower() of a one-character string.
LowerChar(c) ==
    IF \E i \in 1..Len(UpperChars) : CharAt(UpperChars, i) = c
    THEN CharAt(LowerChars, CHOOSE i \in 1..Len(UpperChars) : CharAt(UpperChars, i) = c)
    ELSE c

RECURSIVE LowerFrom(_, _)
LowerFrom(s, i) ==
    IF i > Len(s) THEN "" ELSE LowerChar(CharAt(s, i)) \o LowerFrom(s, i + 1)

\* str.lower(), character by character
LowerOf(s) == LowerFrom(s, 1)

\* str.startswith(prefix)
StartsWith(s, prefix) ==
    /\ Len(s) >= Len(prefix)
    /\ SubSeq(s, 1, Len(prefix)) = prefix


(***************************************************************************)
(* State.                                                                  *)
(***************************************************************************)
VARIABLES
    \* ---- utils/upload.py, uploadProblemZip ----
    misc,              \* problemConfig['misc']: admins, admin-groups, tags
    client,            \* the omegaup.api.Client: its username (or None)
    remoteAdmins,      \* remote platform: the problem's admin entries
    remoteGroupAdmins, \* remote platform: the problem's group-admin entries
    remoteTags,        \* remote platform: the problem's tag names
    observed0,         \* the remote sets as they were when the upload began
    allAdmins,         \* local allAdmins: the listing fetched, or None
    pendingAdd,        \* what the running add loop has still to visit
    pendingRemove,     \* what the running remove loop has still to visit
    upc,               \* position in uploadProblemZip
    calls,             \* the mutating remote calls issued so far, in order
    \* ---- utils/update_assignment_problems.py, main ----
    inputFile,         \* the pending-request file (adding_removing_problems.json)
    problemsJson,      \* problems.json on disk: the manifest's paths, in order
    mirror,            \* the Courses/ tree: what each folder holds
    remoteAssignments, \* remote platform: the assignments of each course
    remoteLinks,       \* remote platform: the problems of each assignment
    data,              \* local data: the request as loaded by main
    problems_data,     \* local problems_data: the manifest in memory
    spc,               \* position in main / process_add / process_remove
    item,              \* index of the item the running loop is at
    cur,               \* the calls made for the current item, and their outcome
    run,               \* how many times main has been started
    applied,           \* the manifest each run loaded, and what it added, removed
                       \* and created remotely
    faults,            \* whether this run met a failure of the platform or the disk
    \* ---- utils/download_and_sync_courses.py, main ----
    dpc,               \* position in main
    all_problems,      \* local all_problems: the paths to write to problems.json
    dlCourse,          \* index of the course the outer loop is at
    dlAssignments,     \* the assignments of that course still to visit
    dlAssignment,      \* the assignment the inner loops are at
    dlProblems,        \* the problems of that assignment still to visit
    downloaded,        \* the outcome of the last download_and_unzip call
    \* ---- utils/upload.py, createProblemZip ----
    validatorName,     \* problemConfig['Validator']['Name']
    problemDir,        \* the files of the problem directory, relative to it
    archive,           \* the members written to the .zip so far
    zpc,               \* position in createProblemZip
    zdir,              \* index of the directory the running loop is at
    problemPath,       \* the problemPath argument: where the directory is on this host
    builds,            \* the archives of the builds finished before this one
    \* ---- the comparison baseline: problems.py and validate_content.py ----
    env,               \* os.environ: the three CI variables, None when unset
    commitRange,       \* local commitRange of problems.problems
    commit_range,      \* local commit_range of get_changed_files
    \* ---- utils/upload.py, _main, and utils/problems.py, problems ----
    args,              \* the command line: --all and the PROBLEM paths
    manifest,          \* problems.json as problems.py reads it: config['problems']
    tree,              \* the settings.json and validator of each problem directory
    bpc,               \* position in _main / problems
    bk,                \* index of the element the running loop is at
    configProblems,    \* local configProblems: the paths of the Problems loaded
    changes,           \* local changes: the output of git diff, or None
    selected,          \* what problems.problems returns
    loadResult,        \* the path given to the last Problem.load, and its outcome
    uploaded,          \* the paths uploadProblem has uploaded, in order
    bulkError,         \* the exception that ended _main, and where it was raised
    \* ---- utils/validate_content.py, main ----
    vpc,               \* position in main
    vk,                \* index of the problem the loop is at
    changed_files,     \* local changed_files: the lines get_changed_files returned
    all_errors,        \* local all_errors
    checked_problems,  \* local checked_problems
    vExit,             \* the status main exited with, or NotExited
    \* ---- utils/update_assignment_problems.py, the manifest functions ----
    store,             \* problems_data["problems"]: the paths, in order
    store0,            \* the manifest as it was loaded
    storeOp,           \* the last call: its function, its path, the list before it
    \* ---- utils/upload.py, uploadProblem and uploadProblemZip to line 214 ----
    deployPath,        \* the problemPath argument of uploadProblem
    canCreate,         \* the canCreate argument
    remoteProblem,     \* remote platform: whether it holds the problem
    exists,            \* local exists, or None before the query
    courseInfo,        \* misc['course_alias'] and misc['assignment_alias']
    ppc,               \* position in uploadProblem / uploadProblemZip
    requests           \* the remote calls made after the query, in order

uploadVars == << misc, client, remoteAdmins, remoteGroupAdmins, remoteTags,
                 observed0, allAdmins, pendingAdd, pendingRemove, upc, calls >>

syncVars == << inputFile, problemsJson, mirror, remoteAssignments, remoteLinks,
               data, problems_data, spc, item, cur, run, applied, faults >>

dlVars == << dpc, all_problems, dlCourse, dlAssignments, dlAssignment, dlProblems,
             downloaded >>

zipVars == << validatorName, problemDir, archive, zpc, zdir, problemPath, builds >>

baseVars == << env, commitRange, commit_range >>

bulkVars == << args, manifest, tree, bpc, bk, configProblems, changes, selected,
               loadResult, uploaded, bulkError >>

valVars == << vpc, vk, changed_files, all_errors, checked_problems, vExit >>

manVars == << store, store0, storeOp >>

deployVars == << deployPath, canCreate, remoteProblem, exists, courseInfo, ppc, requests >>

toolVars == << zipVars, baseVars, bulkVars, valVars, manVars, deployVars >>

vars == << uploadVars, syncVars, dlVars, toolVars >>

(***************************************************************************)
(* Bounds and universes of the upload model.                               *)
(***************************************************************************)
MaxDesired == 2   \* most names a configured list holds
MaxObserved == 2  \* most entries of a kind the remote platform holds at first

None == "None"

\* allAdmins = NoListing
NoListing == [fetched |-> FALSE, admins |-> {}, group_admins |-> {}]

\* The account whose credentials run the upload.
ActingIdentity == "Root"

RemoteUserNames == {"Root", "alice"}
ConfigAdminNames == {"root", "Alice", "bob"}
\* The problem's owner is listed by the platform with another role.
OwnerEntry == [name |-> "Olga", role |-> "owner"]

RemoteGroupNames == {"Staff"}
ConfigGroupNames == {"staff", "Ops"}

RemoteTagNames == {"problemRestrictedTagKarel", "Hard", "easy"}
ConfigTagNames == {"math", "Easy"}

\* The prefix of the tags the platform reserves.
RestrictedPrefix == "problemRestrictedTag"

\* Every name the upload model handles, and its lower-case form.
UploadNames ==
    RemoteUserNames \cup ConfigAdminNames \cup {OwnerEntry.name, ActingIdentity}
        \cup RemoteGroupNames \cup ConfigGroupNames
        \cup RemoteTagNames \cup ConfigTagNames

LowerTable == [s \in UploadNames \cup { LowerOf(n) : n \in UploadNames } |-> LowerOf(s)]

\* str.lower()
Lower(s) == LowerTable[s]

\* { x.lower() for x in S }
LowerSet(S) == { Lower(s) : s \in S }

SubsetsUpTo(S, n) == { T \in SUBSET S : Cardinality(T) <= n }

AdminEntries(names) == { [name |-> n, role |-> "admin"] : n \in names }

\* omegaup.api.Client(api_token=..., url=...) leaves username None; a client
\* built from a username and a password carries the username.
ClientFor(auth) ==
    [username |-> IF auth = "password" THEN ActingIdentity ELSE None]

(***************************************************************************)
(* uploadProblemZip, lines 216-286: the sets it computes.                  *)
(***************************************************************************)
\* A truthiness that takes the empty list for true as well.
TruthyAlways(list) == TRUE

\* Python truthiness of a list.
Truthy(list) == list # {}

\* { a['username'].lower() for a in allAdmins['admins'] if a['role'] == 'admin' }
AdminNames(entries) == { Lower(a.name) : a \in { e \in entries : e.role = "admin" } }

\* clientAdmin: the client's own lower-cased username, when it has one.
ClientAdmin(c) == IF c.username # None THEN {Lower(c.username)} ELSE {}

\* A variant that takes the difference the wrong way round.
AdminsToRemoveSwapped(admins, desiredAdmins, clientAdmin) ==
    (desiredAdmins \ admins) \ clientAdmin

AdminsToRemove(admins, desiredAdmins, clientAdmin) ==
    (admins \ desiredAdmins) \ clientAdmin

AdminsToAdd(admins, desiredAdmins, clientAdmin) ==
    (desiredAdmins \ admins) \ clientAdmin

GroupsToRemove(adminGroups, desiredGroups) == adminGroups \ desiredGroups

GroupsToAdd(adminGroups, desiredGroups) == desiredGroups \ adminGroups

TagsToRemove(tags, desiredTags) == tags \ desiredTags

TagsToAdd(tags, desiredTags) == desiredTags \ tags

\* if tag.startswith('problemRestrictedTag'): ... continue
SkipsTag(tag) == StartsWith(tag, RestrictedPrefix)

\* The order of the two for-loops of each block.
AdminLoops == << "add", "remove" >>
GroupLoops == << "add", "remove" >>
\* A variant that runs the tag loops in the order of the admin loops.
TagLoopsAddFirst == << "add", "remove" >>

TagLoops == << "remove", "add" >>

LoopsOf(kind) ==
    CASE kind = "admin" -> AdminLoops
      [] kind = "group" -> GroupLoops
      [] kind = "tag" -> TagLoops

\* Where control goes once the block of `kind` is over.
AfterBlock(kind) ==
    CASE kind = "admin" -> "group"
      [] kind = "group" -> "tag"
      [] kind = "tag" -> "done"

LoopPc(kind, loop) == kind \o ":" \o loop

\* Where control goes after loop number i of the block of `kind`.
AfterLoop(kind, i) ==
    IF i < Len(LoopsOf(kind))
    THEN LoopPc(kind, LoopsOf(kind)[i + 1])
    ELSE AfterBlock(kind)

LoopIndex(kind, loop) == CHOOSE i \in 1..Len(LoopsOf(kind)) : LoopsOf(kind)[i] = loop

(***************************************************************************)
(* The remote platform's answer to the mutating calls.  Names are matched  *)
(* without regard to case.                                                 *)
(***************************************************************************)
RemoteAdd(entries, name) ==
    IF \E e \in entries : e.role = "admin" /\ Lower(e.name) = Lower(name)
    THEN entries
    ELSE entries \cup {[name |-> name, role |-> "admin"]}

RemoteRemove(entries, name) ==
    { e \in entries : ~(e.role = "admin" /\ Lower(e.name) = Lower(name)) }

RemoteAddTag(tagset, name) ==
    IF \E t \in tagset : Lower(t) = Lower(name) THEN tagset ELSE tagset \cup {name}

RemoteRemoveTag(tagset, name) == { t \in tagset : Lower(t) # Lower(name) }

Call(op, name, ok) == [op |-> op, name |-> name, ok |-> ok]


(***************************************************************************)
(* Bounds and universes of the course-sync model.                          *)
(***************************************************************************)
MaxAdd == 2      \* most items of the request's add_problem array
MaxRemove == 1   \* most items of the request's remove_problem array
MaxRuns == 2     \* how many times main is started: once, and again after a crash

\* update_assignment_problems.py, COURSE_ALIASES
COURSE_ALIASES == {"curso-publico", "omi-public-course"}

\* download_and_sync_courses.py, COURSE_ALIASES
DL_COURSE_ALIASES == << "ResolviendoProblemas2021", "omi-public-course" >>

Item(course, assignment, problem, points) ==
    [course_alias |-> course, assignment_alias |-> assignment,
     problem_alias |-> problem, has_points |-> points]

AddItemUniverse ==
    { Item("omi-public-course", "tarea-1", "sumas", TRUE),
      Item("omi-public-course", "tarea-2", "a+b", TRUE),
      Item("ResolviendoProblemas2021", "tarea-1", "sumas", TRUE),
      Item("omi-public-course", "tarea-1", "sumas", FALSE),
      Item("ResolviendoProblemas2021", "tarea-2", "a+b", FALSE) }

RemoveItemUniverse ==
    { Item("omi-public-course", "tarea-1", "sumas", TRUE),
      Item("omi-public-course", "tarea-2", "a+b", TRUE),
      Item("ResolviendoProblemas2021", "tarea-1", "sumas", TRUE) }

\* The (course, assignment, problem) triples the model handles.
LinkUniverse ==
    { << i.course_alias, i.assignment_alias, i.problem_alias >> :
        i \in AddItemUniverse \cup RemoveItemUniverse }

AssignmentOf(link) == << link[1], link[2] >>

AliasUniverse ==
    UNION { { l[1], l[2], l[3] } : l \in LinkUniverse }

SeqsUpTo(S, n) == UNION { [1..k -> S] : k \in 0..n }

(***************************************************************************)
(* update_assignment_problems.py: names and paths.                         *)
(***************************************************************************)
\* The characters re.sub(r'[^a-zA-Z0-9_\-\.]', '_', name) leaves alone.
SafeChars == UpperChars \o LowerChars \o "0123456789" \o "_-."

HasChar(chars, c) == \E i \in 1..Len(chars) : CharAt(chars, i) = c

RECURSIVE SanitizeFrom(_, _)
SanitizeFrom(name, i) ==
    IF i > Len(name) THEN ""
    ELSE (IF HasChar(SafeChars, CharAt(name, i)) THEN CharAt(name, i) ELSE "_")
             \o SanitizeFrom(name, i + 1)

SanitizeTable == [a \in AliasUniverse |-> SanitizeFrom(a, 1)]

\* sanitize_filename, lines 34-35
sanitize_filename(name) == SanitizeTable[name]

\* The manifest path of add_problem_to_json / remove_problem_from_json.
ManifestPath(course, assignment, problem) ==
    "Courses/" \o course \o "/" \o assignment \o "/" \o problem

\* assignment_folder of process_add, relative to the repository root.
AssignmentFolder(course, assignment) ==
    "Courses/" \o sanitize_filename(course) \o "/" \o sanitize_filename(assignment)

\* problem_folder of download_and_unzip and of process_remove.
ProblemFolder(course, assignment, problem) ==
    AssignmentFolder(course, assignment) \o "/" \o sanitize_filename(problem)

(***************************************************************************)
(* download_and_sync_courses.py: names and paths.                          *)
(***************************************************************************)
\* The characters "".join(c for c in name if c.isalnum() or c in " -_") keeps.
DlKeptChars == UpperChars \o LowerChars \o "0123456789" \o " -_"

RECURSIVE DlKeepFrom(_, _)
DlKeepFrom(name, i) ==
    IF i > Len(name) THEN ""
    ELSE (IF HasChar(DlKeptChars, CharAt(name, i)) THEN CharAt(name, i) ELSE "")
             \o DlKeepFrom(name, i + 1)

\* str.strip(): of the characters kept, only the space is white space.
RECURSIVE Strip(_)
Strip(name) ==
    IF Len(name) > 0 /\ CharAt(name, 1) = " " THEN Strip(SubSeq(name, 2, Len(name)))
    ELSE IF Len(name) > 0 /\ CharAt(name, Len(name)) = " "
    THEN Strip(SubSeq(name, 1, Len(name) - 1))
    ELSE name

DlSanitizeTable == [a \in AliasUniverse |-> Strip(DlKeepFrom(a, 1))]

\* sanitize_filename of download_and_sync_courses.py, lines 65-66
dl_sanitize_filename(name) == DlSanitizeTable[name]

\* assignment_folder, lines 226 and 243-244, relative to the repository root.
DlAssignmentFolder(course, assignment) == "Courses/" \o course \o "/" \o assignment

\* problem_folder of download_and_unzip, lines 158-159.
DlProblemFolder(course, assignment, problem) ==
    DlAssignmentFolder(course, assignment) \o "/" \o dl_sanitize_filename(problem)

\* rel_path, lines 256-261
DlRelPath(course, assignment, problem) ==
    "Courses/" \o course \o "/" \o assignment \o "/" \o dl_sanitize_filename(problem)

FolderUniverse ==
    { AssignmentFolder(l[1], l[2]) : l \in LinkUniverse }
        \cup { ProblemFolder(l[1], l[2], l[3]) : l \in LinkUniverse }
        \cup { DlAssignmentFolder(l[1], l[2]) : l \in LinkUniverse }
        \cup { DlProblemFolder(l[1], l[2], l[3]) : l \in LinkUniverse }

\* An add_problem_to_json that appends whatever the manifest holds.
add_problem_to_json_appends(course, assignment, problem, problems) ==
    Append(problems, ManifestPath(course, assignment, problem))

\* add_problem_to_json, lines 255-260
add_problem_to_json(course, assignment, problem, problems) ==
    LET path == ManifestPath(course, assignment, problem)
    IN  IF \E k \in DOMAIN problems : problems[k] = path
        THEN problems
        ELSE Append(problems, path)

\* A remove_problem_from_json that leaves the manifest as it is.
remove_problem_from_json_keeps(course, assignment, problem, problems) == problems

\* remove_problem_from_json, lines 263-270
remove_problem_from_json(course, assignment, problem, problems) ==
    LET path == ManifestPath(course, assignment, problem)
    IN  SelectSeq(problems, LAMBDA q : q # path)

\* An assignment_exists that finds every alias in any listing.
assignment_exists_always(assignments, course, alias) == TRUE

\* An assignment_exists that finds no alias in any listing.
assignment_exists_never(assignments, course, alias) == FALSE

\* Manifest functions that write the file through on every change.
ManifestFileWrittenThrough(file, memory) == memory

\* problems.json after add_problem_to_json or remove_problem_from_json has
\* changed problems_data, lines 255-270: they touch the dict only.
ManifestFileAfter(file, memory) == file

\* assignment_exists, lines 50-51, on the listing the platform returned.
assignment_exists(assignments, course, alias) == << course, alias >> \in assignments

(***************************************************************************)
(* download_and_unzip, lines 76-141: what a download can come to, what it  *)
(* leaves in the problem folder and what it returns.                       *)
(***************************************************************************)
DownloadOutcomes ==
    { "http404",             \* lines 88-94
      "httpError",           \* lines 95-99
      "connectionError",     \* an exception before the folder is made, 139-141
      "badZip",              \* lines 117-119: the folder holds the .zip
      "extractError",        \* another exception while unpacking, 139-141
      "okSettings",          \* unpacked, settings.json rewritten, 124-131
      "okNoSettings",        \* unpacked, no settings.json, 134-135
      "okBadSettings" }      \* unpacked, settings.json not JSON, 132-133

\* The return value of download_and_unzip.
DownloadReturns(outcome) ==
    outcome \in {"okSettings", "okNoSettings", "okBadSettings"}

\* What the problem folder holds after the call, given what it held.
FolderAfterDownload(outcome, held) ==
    CASE outcome \in {"http404", "httpError", "connectionError"} -> held
      [] outcome \in {"badZip", "extractError"} -> "partial"
      [] outcome = "okSettings" -> "unpacked"
      [] outcome = "okNoSettings" -> "unpackedNoSettings"
      [] outcome = "okBadSettings" -> "unpackedBadSettings"

\* A process_add that updates problems.json whatever download_and_unzip returned.
AppendsEntryAlways(success) == TRUE

\* if success: add_problem_to_json(...), line 184
AppendsEntry(success) == success

\* if downloaded: all_problems.append(...), download_and_sync_courses.py line 255
DlAppendsPath(success) == success

(***************************************************************************)
(* The manifest functions on their own: a manifest as load_problems_json   *)
(* returns it, and calls of add_problem_to_json and                        *)
(* remove_problem_from_json on it.                                         *)
(***************************************************************************)
MaxStore == 3   \* most entries of the manifest loaded

\* What remove_problem_from_json returns: it has no return statement.
RemoveReturns(before, after) == None

\* if before != after: LOG.info(...), lines 269-270
RemoveLogs(before, after) == Len(before) # Len(after)

NoOp == [op |-> "none", link |-> << >>, before |-> << >>, returned |-> None,
         logged |-> FALSE]

(***************************************************************************)
(* The remote platform's answers to the course calls.  The client raises   *)
(* on every answer but "ok".                                               *)
(***************************************************************************)
\* course.addProblem: the assignment must exist; linking twice is accepted.
AddProblemAnswers(assignments, link) ==
    IF AssignmentOf(link) \in assignments THEN {"ok", "error"} ELSE {"assignmentNotFound"}

\* course.removeProblem: a problem that is not in the assignment is reported.
RemoveProblemAnswers(links, link) ==
    IF link \in links THEN {"ok", "error"} ELSE {"alreadyRemoved"}

\* course.createAssignment: an alias that exists is reported; it may have been
\* created by someone else since the listing.
CreateAssignmentAnswers == {"ok", "alreadyExists", "error"}

Raises(answer) == answer # "ok"

NoCalls ==
    [listed |-> "none", create |-> "none", link |-> "none",
     download |-> "none", remove |-> "none", rmtree |-> "none", clear |-> "none"]

EmptyRequest == [exists |-> TRUE, add_problem |-> << >>, remove_problem |-> << >>]

NoChanges ==
    [r \in 1..MaxRuns |-> [loaded |-> << >>, added |-> {}, removed |-> {}, created |-> {}]]

(***************************************************************************)
(* upload.py, createProblemZip: the problem directory.                     *)
(***************************************************************************)
TESTPLAN_FILE == "testplan"
STATEMENTS_DIR == "statements"
SOLUTIONS_DIR == "solutions"
CASES_DIR == "cases"
EXAMPLES_DIR == "examples"
INTERACTIVE_DIR == "interactive"
VALIDATOR_PREFIX == "validator"

\* The files a problem directory of the model may hold.
FileUniverse ==
    { "testplan", "settings.json", "validator.cpp", "validator.py",
      "validators/v.sh", "statements/es.markdown", "solutions/es.markdown",
      "cases/1.in", "cases/sub/2.in", "examples/sample.in", "interactive/Main.idl" }

ValidatorNames == {"custom", "token-caseless"}

RECURSIVE SlashFrom(_, _)
\* The index of the first "/" of s at or after i, or 0.
SlashFrom(s, i) ==
    IF i > Len(s) THEN 0
    ELSE IF CharAt(s, i) = "/" THEN i
    ELSE SlashFrom(s, i + 1)

\* The name of the entry of the problem root a file lies in or is.
RootEntryOf(f) ==
    IF SlashFrom(f, 1) = 0 THEN f ELSE SubSeq(f, 1, SlashFrom(f, 1) - 1)

RootEntryTable == [f \in FileUniverse |-> RootEntryOf(f)]

\* os.listdir(problemPath), line 75
ListDir(dir) == { RootEntryTable[f] : f \in dir }

\* os.path.isfile(os.path.join(problemPath, name)), line 69
IsFile(dir, name) == name \in dir

\* os.path.isdir(os.path.join(problemPath, name)), line 92
IsDir(dir, name) == \E f \in dir : f # name /\ RootEntryTable[f] = name

\* A _recursiveAdd that takes the files right under the directory only.
WalkTopOnly(dir, directory) ==
    { f \in dir : f # directory /\ RootEntryTable[f] = directory
                    /\ SlashFrom(f, Len(directory) + 2) = 0 }

\* The files os.walk(os.path.join(problemPath, directory)) yields, lines 62-65.
Walk(dir, directory) == { f \in dir : f # directory /\ RootEntryTable[f] = directory }

\* validators, lines 73-77
Validators(dir) == { x \in ListDir(dir) : StartsWith(x, VALIDATOR_PREFIX) }

\* A createProblemZip that looks for a validator whatever the configuration.
LooksUpValidatorAlways(name) == TRUE

\* if problemConfig['Validator']['Name'] == 'custom', line 72
LooksUpValidator(name) == name = "custom"

\* The directories of the loop at lines 88-89, then of the loop at 91-94.
ZipDirectories ==
    << STATEMENTS_DIR, SOLUTIONS_DIR, CASES_DIR, EXAMPLES_DIR, INTERACTIVE_DIR >>

\* if not os.path.isdir(...): continue, lines 92-93 (second loop only)
SkipsDirectory(dir, k) == k > 3 /\ ~IsDir(dir, ZipDirectories[k])

MaxBuilds == 2   \* how many times the same problem directory is packaged

\* os.path.join(rootDirectory, problem.path), upload.py line 401: the
\* repository root is absolute, and a PROBLEM argument may end in a slash.
HostPaths ==
    { "/home/ci/repo/Courses/c/t/p",
      "/srv/build/w/Courses/c/t/p/" }

\* os.path.join(a, b) for a relative b
Join(a, b) ==
    IF Len(a) > 0 /\ CharAt(a, Len(a)) = "/" THEN a \o b ELSE a \o "/" \o b

\* os.path.normpath, for an absolute path whose only irregularity is a
\* trailing slash.
RECURSIVE NormPath(_)
NormPath(path) ==
    IF Len(path) > 1 /\ CharAt(path, Len(path)) = "/"
    THEN NormPath(SubSeq(path, 1, Len(path) - 1))
    ELSE path

\* os.path.relpath(path, start) for a path at or under start, which is
\* where every path given to _addFile lies.
RelPath(path, start) ==
    LET s == NormPath(start)
        q == NormPath(path)
    IN  IF q = s THEN "."
        ELSE IF StartsWith(q, s \o "/") THEN SubSeq(q, Len(s) + 2, Len(q))
        ELSE q

\* An _addFile that names the member by the path it was given.
ArcNameAsGiven(f, path) == f

\* The member name of archive.write(f, os.path.relpath(f, problemPath)), line 59
ArcName(f, path) == RelPath(f, path)

\* _addFile over a set of names of the problem directory.
AddFiles(names, path) == { ArcName(Join(path, x), path) : x \in names }

(***************************************************************************)
(* The comparison baseline, problems.py lines 171-178 and                  *)
(* validate_content.py lines 27-35.                                        *)
(***************************************************************************)
DEFAULT_COMMIT_RANGE == "origin/main...HEAD"

\* What os.environ may hold: a variable is unset (None), empty or set.
EnvUniverse ==
    [ TRAVIS_COMMIT_RANGE : {None, "", "1a2b...3c4d"},
      CIRCLE_COMPARE_URL  : {None, "", "https://github.com/omegaup/courses/compare/5e6f...7a8b",
                             "https://ci.example/compare"},
      GITHUB_BASE_COMMIT  : {None, "", "9c0d"} ]

NoEnv == [TRAVIS_COMMIT_RANGE |-> None, CIRCLE_COMPARE_URL |-> None,
          GITHUB_BASE_COMMIT |-> None]

\* if env.get(name): the variable is set and not empty.
EnvGet(value) == value # None /\ value # ""

RECURSIVE SplitFrom(_, _)
\* s[i:].split('/')
SplitFrom(s, i) ==
    LET j == SlashFrom(s, i)
    IN  IF j = 0 THEN << SubSeq(s, i, Len(s)) >>
        ELSE << SubSeq(s, i, j - 1) >> \o SplitFrom(s, j + 1)

\* url.split('/')[6]; a list that short raises IndexError.
SplitIndex6(url) ==
    LET parts == SplitFrom(url, 1)
    IN  IF Len(parts) >= 7 THEN parts[7] ELSE "IndexError"

\* problems.py, lines 171-178
ProblemsCommitRange(e) ==
    IF EnvGet(e.TRAVIS_COMMIT_RANGE) THEN e.TRAVIS_COMMIT_RANGE
    ELSE IF EnvGet(e.CIRCLE_COMPARE_URL) THEN SplitIndex6(e.CIRCLE_COMPARE_URL)
    ELSE IF EnvGet(e.GITHUB_BASE_COMMIT) THEN e.GITHUB_BASE_COMMIT \o "...HEAD"
    ELSE DEFAULT_COMMIT_RANGE

\* A get_changed_files that tests `is not None` where the code tests truth.
ValidateCommitRangeKeepsEmpty(e) ==
    IF e.TRAVIS_COMMIT_RANGE # None THEN e.TRAVIS_COMMIT_RANGE
    ELSE IF e.CIRCLE_COMPARE_URL # None THEN SplitIndex6(e.CIRCLE_COMPARE_URL)
    ELSE IF e.GITHUB_BASE_COMMIT # None THEN e.GITHUB_BASE_COMMIT \o "...HEAD"
    ELSE "origin/main...HEAD"

\* validate_content.py, lines 27-35
ValidateCommitRange(e) ==
    IF EnvGet(e.TRAVIS_COMMIT_RANGE) THEN e.TRAVIS_COMMIT_RANGE
    ELSE IF EnvGet(e.CIRCLE_COMPARE_URL) THEN SplitIndex6(e.CIRCLE_COMPARE_URL)
    ELSE IF EnvGet(e.GITHUB_BASE_COMMIT) THEN e.GITHUB_BASE_COMMIT \o "...HEAD"
    ELSE "origin/main...HEAD"

(***************************************************************************)
(* upload.py, uploadProblem lines 307-325 and uploadProblemZip lines       *)
(* 149-214: the query, the upload and the course link.                     *)
(***************************************************************************)
\* os.path.join(rootDirectory, problem.path), line 401: a problem three
\* levels down (the PROBLEM argument with and without a trailing slash),
\* one right under a one-level root, one right under "/".
DeployPaths ==
    { "/home/ci/repo/Courses/c/t/p", "/home/ci/repo/Courses/c/t/p/", "/w/p", "/p" }

NoCourseInfo == [course_alias |-> "", assignment_alias |-> ""]

\* uploadProblem, lines 313-319: path_parts[-3] and path_parts[-2]
InferAliases(path) ==
    LET path_parts == SplitFrom(path, 1)
        n == Len(path_parts)
    IN  IF n >= 3
        THEN [course_alias |-> path_parts[n - 2], assignment_alias |-> path_parts[n - 1]]
        ELSE NoCourseInfo

\* An uploadProblemZip that uploads whether or not it may create.
MayUploadAlways(found, allowed) == TRUE

\* lines 154-156: a problem that does not exist is uploaded only with canCreate
MayUpload(found, allowed) == found \/ allowed

\* lines 157-160
Endpoint(found) == IF found THEN "update" ELSE "create"

\* An uploadProblemZip that links whatever it found.
LinksCourseAlways(found, info) == TRUE

\* lines 175-179: if exists: ... if course_alias and assignment_alias:
LinksCourse(found, info) ==
    found /\ info.course_alias # "" /\ info.assignment_alias # ""

\* What problem.versions may answer: a published commit, or none.
PublishedAnswers == { "0a1b2c", "" }

\* What course.assignmentDetails may answer: details with or without points.
DetailsAnswers == { "points", "" }

Request(op, ok, detail) == [op |-> op, ok |-> ok, detail |-> detail]

LinkOps == { "assignmentDetails", "versions", "addProblem" }

(***************************************************************************)
(* problems.py and upload.py _main: the manifest, the problem directories  *)
(* and the diff.                                                           *)
(***************************************************************************)
MaxManifest == 2   \* most entries problems.json holds
MaxPaths == 2      \* most PROBLEM arguments on the command line

PathUniverse == {"Courses/c/t/p1", "Courses/c/t/p2"}

\* An entry of config['problems']: its path, its "disabled" key ("true",
\* "false", or None when the entry has none) and whether it has a "title" key.
EntryUniverse ==
    { [path |-> p, disabled |-> d[1], title |-> d[2]] :
        p \in PathUniverse,
        d \in { << None, TRUE >>, << None, FALSE >>, << "true", TRUE >>,
                << "true", FALSE >>, << "false", TRUE >> } }

DistinctPaths(entries) ==
    \A i, j \in DOMAIN entries : entries[i].path = entries[j].path => i = j

ManifestUniverse ==
    { m \in SeqsUpTo(EntryUniverse, MaxManifest) : DistinctPaths(m) }

\* A problem directory: its settings.json (absent, not JSON, or JSON with or
\* without "title" and "alias") and whether createProblemZip finds the
\* validator its settings declare.
DirUniverse ==
    { [file |-> "absent", title |-> FALSE, alias |-> FALSE, packs |-> FALSE],
      [file |-> "notJson", title |-> FALSE, alias |-> FALSE, packs |-> FALSE],
      [file |-> "json", title |-> TRUE, alias |-> TRUE, packs |-> TRUE],
      [file |-> "json", title |-> FALSE, alias |-> TRUE, packs |-> TRUE],
      [file |-> "json", title |-> TRUE, alias |-> FALSE, packs |-> TRUE],
      [file |-> "json", title |-> TRUE, alias |-> TRUE, packs |-> FALSE] }

NoDir == [file |-> "absent", title |-> FALSE, alias |-> FALSE, packs |-> FALSE]

ArgsUniverse ==
    [ all : BOOLEAN,
      problem_paths : { q \in SeqsUpTo(PathUniverse, MaxPaths) :
                          \A i, j \in DOMAIN q : q[i] = q[j] => i = j } ]

\* What git diff --name-only prints: one file per line.
DiffOutputs ==
    { "",
      "Courses/c/t/p1/cases/1.in\n",
      "old/Courses/c/t/p1/cases/1.in\n",
      "README.md\nCourses/c/t/p2/statements/es.markdown\n" }

\* subprocess.check_output either returns the output or raises.
DiffOutcomes == DiffOutputs \cup {"CalledProcessError"}

\* sub in s, on Python strings
Contains(s, sub) ==
    \E i \in 1..(Len(s) - Len(sub) + 1) : SubSeq(s, i, i + Len(sub) - 1) = sub

ContainsTable == [o \in DiffOutputs |-> { q \in PathUniverse : Contains(o, q) }]

\* A filter that keeps a problem when its path is not in the output.
SelectsUnchanged(path, out) == path \notin ContainsTable[out]

\* not (problem.path not in changes), problems.py line 189
Selects(path, out) == path \in ContainsTable[out]

\* Problem.load, problems.py lines 24-41: a Problem, or the exception raised.
LoadOutcome(dir) ==
    IF dir.file = "absent" THEN "FileNotFoundError"      \* lines 30-32
    ELSE IF dir.file = "notJson" THEN "ValueError"       \* lines 33-37
    ELSE IF ~dir.title THEN "KeyError"                   \* line 40
    ELSE "Problem"

\* problem.get('disabled', False), line 158
IsDisabled(entry) == entry.disabled = "true"

\* uploadProblem, upload.py lines 307-336, up to the remote calls: the
\* exception raised before them, or "remote".
UploadOutcome(dir) ==
    IF dir.file = "absent" THEN "FileNotFoundError"      \* line 309
    ELSE IF dir.file = "notJson" THEN "JSONDecodeError"  \* line 310
    ELSE IF ~dir.alias THEN "KeyError"                   \* line 312
    ELSE IF ~dir.packs THEN "Exception"                  \* createProblemZip, 79-82
    ELSE "remote"

NoLoad == [path |-> None, outcome |-> None]

NoError == [at |-> None, exception |-> None]

(***************************************************************************)
(* validate_content.py: the changed files and what a problem is found to   *)
(* lack.                                                                   *)
(***************************************************************************)
RECURSIVE NewlineFrom(_, _)
\* The index of the first line break of s at or after i, or 0.
NewlineFrom(s, i) ==
    IF i > Len(s) THEN 0
    ELSE IF CharAt(s, i) = "\n" THEN i
    ELSE NewlineFrom(s, i + 1)

RECURSIVE SplitLinesFrom(_, _)
\* s[i:].splitlines()
SplitLinesFrom(s, i) ==
    IF i > Len(s) THEN << >>
    ELSE LET j == NewlineFrom(s, i)
         IN  IF j = 0 THEN << SubSeq(s, i, Len(s)) >>
             ELSE << SubSeq(s, i, j - 1) >> \o SplitLinesFrom(s, j + 1)

SplitLinesTable == [o \in DiffOutputs |-> SplitLinesFrom(o, 1)]

\* get_changed_files, lines 37-45: the lines of the output, or [] when the
\* command failed.
ChangedFilesOf(out) ==
    IF out = "CalledProcessError" THEN << >> ELSE SplitLinesTable[out]

\* any(f.startswith(problem_path) for f in changed_files), line 182
HasChanges(path, files) == \E i \in DOMAIN files : StartsWith(files[i], path)

\* What main finds wrong in a changed problem, lines 191-214: the errors it
\* extends all_errors with.
Findings ==
    { << >>,                                  \* nothing
      << "pathMissing" >>,                    \* lines 191-195
      << "statementMissing" >>,               \* validate_markdown_files
      << "imageMissing" >>,                   \* validate_image_references
      << "statementMissing", "imageMissing" >> }

\* The value of vExit while main has not called sys.exit.
NotExited == -1

(***************************************************************************)
(* The part of the state a specification leaves alone.                     *)
(***************************************************************************)
ValidateIdle ==
    /\ vpc = "idle"
    /\ vk = 0
    /\ changed_files = << >>
    /\ all_errors = << >>
    /\ checked_problems = 0
    /\ vExit = NotExited

BulkIdle ==
    /\ args = [all |-> FALSE, problem_paths |-> << >>]
    /\ manifest = << >>
    /\ tree = [q \in PathUniverse |-> NoDir]
    /\ bpc = "idle"
    /\ bk = 0
    /\ configProblems = << >>
    /\ changes = None
    /\ selected = << >>
    /\ loadResult = NoLoad
    /\ uploaded = << >>
    /\ bulkError = NoError

BaselineIdle ==
    /\ env = NoEnv
    /\ commitRange = None
    /\ commit_range = None

ZipIdle ==
    /\ validatorName = "token-caseless"
    /\ problemDir = {}
    /\ archive = {}
    /\ zpc = "idle"
    /\ zdir = 0
    /\ problemPath = ""
    /\ builds = << >>

StoreIdle ==
    /\ store = << >>
    /\ store0 = << >>
    /\ storeOp = NoOp

DeployIdle ==
    /\ deployPath = ""
    /\ canCreate = FALSE
    /\ remoteProblem = FALSE
    /\ exists = None
    /\ courseInfo = NoCourseInfo
    /\ ppc = "idle"
    /\ requests = << >>

ToolsIdle ==
    ZipIdle /\ BaselineIdle /\ BulkIdle /\ ValidateIdle /\ StoreIdle /\ DeployIdle

SyncIdle ==
    /\ inputFile = EmptyRequest
    /\ problemsJson = << >>
    /\ mirror = [f \in FolderUniverse |-> "absent"]
    /\ remoteAssignments = {}
    /\ remoteLinks = {}
    /\ data = EmptyRequest
    /\ problems_data = << >>
    /\ spc = "idle"
    /\ item = 0
    /\ cur = NoCalls
    /\ run = 0
    /\ applied = NoChanges
    /\ faults = FALSE

DownloadIdle ==
    /\ dpc = "idle"
    /\ all_problems = << >>
    /\ dlCourse = 0
    /\ dlAssignments = {}
    /\ dlAssignment = ""
    /\ dlProblems = {}
    /\ downloaded = "none"

UploadIdle ==
    /\ misc = [admins |-> {}, admin_groups |-> {}, hasTags |-> FALSE, tags |-> {}]
    /\ client = ClientFor("token")
    /\ remoteAdmins = {}
    /\ remoteGroupAdmins = {}
    /\ remoteTags = {}
    /\ observed0 = [admins |-> {}, group_admins |-> {}, tags |-> {}]
    /\ allAdmins = NoListing
    /\ pendingAdd = {}
    /\ pendingRemove = {}
    /\ upc = "idle"
    /\ calls = << >>

(***************************************************************************)
(* uploadProblemZip, lines 216-286, step by step.  A remote call that      *)
(* fails raises, and nothing in uploadProblemZip catches it.               *)
(***************************************************************************)
UploadInit ==
    /\ ToolsIdle
    /\ \E auth \in {"token", "password"} : client = ClientFor(auth)
    /\ \E a \in SubsetsUpTo(ConfigAdminNames, MaxDesired),
          g \in SubsetsUpTo(ConfigGroupNames, MaxDesired),
          t \in SubsetsUpTo(ConfigTagNames, MaxDesired),
          h \in BOOLEAN :
            /\ (~h => t = {})
            /\ misc = [admins |-> a, admin_groups |-> g, hasTags |-> h, tags |-> t]
    /\ \E a \in SubsetsUpTo(RemoteUserNames, MaxObserved) :
          remoteAdmins = AdminEntries(a) \cup {OwnerEntry}
    /\ \E g \in SubsetsUpTo(RemoteGroupNames, MaxObserved) :
          remoteGroupAdmins = AdminEntries(g)
    /\ remoteTags \in SubsetsUpTo(RemoteTagNames, MaxObserved)
    /\ observed0 = [admins |-> remoteAdmins, group_admins |-> remoteGroupAdmins,
                    tags |-> remoteTags]
    /\ allAdmins = NoListing
    /\ pendingAdd = {}
    /\ pendingRemove = {}
    /\ upc = "fetch"
    /\ calls = << >>
    /\ SyncIdle
    /\ DownloadIdle

\* lines 216-221
FetchAdmins ==
    /\ upc = "fetch"
    /\ IF Truthy(misc.admins) \/ Truthy(misc.admin_groups)
       THEN \E ok \in BOOLEAN :
              IF ok
              THEN /\ allAdmins' = [fetched |-> TRUE, admins |-> remoteAdmins,
                                    group_admins |-> remoteGroupAdmins]
                   /\ upc' = "admin"
              ELSE /\ allAdmins' = allAdmins
                   /\ upc' = "raised"
       ELSE /\ allAdmins' = NoListing
            /\ upc' = "admin"
    /\ UNCHANGED << syncVars, dlVars, toolVars, misc, client, remoteAdmins, remoteGroupAdmins, remoteTags,
                    observed0, pendingAdd, pendingRemove, calls >>

\* lines 223-235
ReconcileAdmins ==
    /\ upc = "admin"
    /\ IF Truthy(misc.admins) /\ allAdmins.fetched
       THEN LET admins == AdminNames(allAdmins.admins)
                desiredAdmins == LowerSet(misc.admins)
                clientAdmin == ClientAdmin(client)
            IN  /\ pendingRemove' = AdminsToRemove(admins, desiredAdmins, clientAdmin)
                /\ pendingAdd' = AdminsToAdd(admins, desiredAdmins, clientAdmin)
                /\ upc' = LoopPc("admin", AdminLoops[1])
       ELSE /\ upc' = AfterBlock("admin")
            /\ UNCHANGED << pendingAdd, pendingRemove >>
    /\ UNCHANGED << syncVars, dlVars, toolVars, misc, client, remoteAdmins, remoteGroupAdmins, remoteTags,
                    observed0, allAdmins, calls >>

\* lines 237-239
AddAdmin ==
    /\ upc = LoopPc("admin", "add")
    /\ \E admin \in pendingAdd, ok \in BOOLEAN :
         /\ calls' = Append(calls, Call("addAdmin", admin, ok))
         /\ pendingAdd' = pendingAdd \ {admin}
         /\ remoteAdmins' = IF ok THEN RemoteAdd(remoteAdmins, admin) ELSE remoteAdmins
         /\ upc' = IF ok THEN upc ELSE "raised"
    /\ UNCHANGED << syncVars, dlVars, toolVars, misc, client, remoteGroupAdmins, remoteTags, observed0,
                    allAdmins, pendingRemove >>

\* lines 241-244
RemoveAdmin ==
    /\ upc = LoopPc("admin", "remove")
    /\ \E admin \in pendingRemove, ok \in BOOLEAN :
         /\ calls' = Append(calls, Call("removeAdmin", admin, ok))
         /\ pendingRemove' = pendingRemove \ {admin}
         /\ remoteAdmins' = IF ok THEN RemoteRemove(remoteAdmins, admin) ELSE remoteAdmins
         /\ upc' = IF ok THEN upc ELSE "raised"
    /\ UNCHANGED << syncVars, dlVars, toolVars, misc, client, remoteGroupAdmins, remoteTags, observed0,
                    allAdmins, pendingAdd >>

\* lines 246-255
ReconcileGroups ==
    /\ upc = "group"
    /\ IF Truthy(misc.admin_groups) /\ allAdmins.fetched
       THEN LET adminGroups == AdminNames(allAdmins.group_admins)
                desiredGroups == LowerSet(misc.admin_groups)
            IN  /\ pendingRemove' = GroupsToRemove(adminGroups, desiredGroups)
                /\ pendingAdd' = GroupsToAdd(adminGroups, desiredGroups)
                /\ upc' = LoopPc("group", GroupLoops[1])
       ELSE /\ upc' = AfterBlock("group")
            /\ UNCHANGED << pendingAdd, pendingRemove >>
    /\ UNCHANGED << syncVars, dlVars, toolVars, misc, client, remoteAdmins, remoteGroupAdmins, remoteTags,
                    observed0, allAdmins, calls >>

\* lines 257-259
AddGroupAdmin ==
    /\ upc = LoopPc("group", "add")
    /\ \E group \in pendingAdd, ok \in BOOLEAN :
         /\ calls' = Append(calls, Call("addGroupAdmin", group, ok))
         /\ pendingAdd' = pendingAdd \ {group}
         /\ remoteGroupAdmins' =
                IF ok THEN RemoteAdd(remoteGroupAdmins, group) ELSE remoteGroupAdmins
         /\ upc' = IF ok THEN upc ELSE "raised"
    /\ UNCHANGED << syncVars, dlVars, toolVars, misc, client, remoteAdmins, remoteTags, observed0,
                    allAdmins, pendingRemove >>

\* lines 261-263
RemoveGroupAdmin ==
    /\ upc = LoopPc("group", "remove")
    /\ \E group \in pendingRemove, ok \in BOOLEAN :
         /\ calls' = Append(calls, Call("removeGroupAdmin", group, ok))
         /\ pendingRemove' = pendingRemove \ {group}
         /\ remoteGroupAdmins' =
                IF ok THEN RemoteRemove(remoteGroupAdmins, group) ELSE remoteGroupAdmins
         /\ upc' = IF ok THEN upc ELSE "raised"
    /\ UNCHANGED << syncVars, dlVars, toolVars, misc, client, remoteAdmins, remoteTags, observed0,
                    allAdmins, pendingAdd >>

\* lines 265-274
ReconcileTags ==
    /\ upc = "tag"
    /\ IF misc.hasTags
       THEN \E ok \in BOOLEAN :
              IF ok
              THEN LET tags == LowerSet(remoteTags)
                       desiredTags == LowerSet(misc.tags)
                   IN  /\ pendingRemove' = TagsToRemove(tags, desiredTags)
                       /\ pendingAdd' = TagsToAdd(tags, desiredTags)
                       /\ upc' = LoopPc("tag", TagLoops[1])
              ELSE /\ upc' = "raised"
                   /\ UNCHANGED << pendingAdd, pendingRemove >>
       ELSE /\ upc' = AfterBlock("tag")
            /\ UNCHANGED << pendingAdd, pendingRemove >>
    /\ UNCHANGED << syncVars, dlVars, toolVars, misc, client, remoteAdmins, remoteGroupAdmins, remoteTags,
                    observed0, allAdmins, calls >>

\* lines 276-280
RemoveTag ==
    /\ upc = LoopPc("tag", "remove")
    /\ \E tag \in pendingRemove, ok \in BOOLEAN :
         /\ pendingRemove' = pendingRemove \ {tag}
         /\ IF SkipsTag(tag)
            THEN /\ ok
                 /\ UNCHANGED << calls, remoteTags, upc >>
            ELSE /\ calls' = Append(calls, Call("removeTag", tag, ok))
                 /\ remoteTags' = IF ok THEN RemoteRemoveTag(remoteTags, tag) ELSE remoteTags
                 /\ upc' = IF ok THEN upc ELSE "raised"
    /\ UNCHANGED << syncVars, dlVars, toolVars, misc, client, remoteAdmins, remoteGroupAdmins, observed0,
                    allAdmins, pendingAdd >>

\* lines 282-286
AddTag ==
    /\ upc = LoopPc("tag", "add")
    /\ \E tag \in pendingAdd, ok \in BOOLEAN :
         /\ calls' = Append(calls, Call("addTag", tag, ok))
         /\ pendingAdd' = pendingAdd \ {tag}
         /\ remoteTags' = IF ok THEN RemoteAddTag(remoteTags, tag) ELSE remoteTags
         /\ upc' = IF ok THEN upc ELSE "raised"
    /\ UNCHANGED << syncVars, dlVars, toolVars, misc, client, remoteAdmins, remoteGroupAdmins, observed0,
                    allAdmins, pendingRemove >>

\* A for-loop whose set is exhausted ends; control moves to the next loop of
\* the block, or to the next block.
EndLoop ==
    /\ \E kind \in {"admin", "group", "tag"}, loop \in {"add", "remove"} :
         /\ upc = LoopPc(kind, loop)
         /\ (IF loop = "add" THEN pendingAdd ELSE pendingRemove) = {}
         /\ upc' = AfterLoop(kind, LoopIndex(kind, loop))
    /\ UNCHANGED << syncVars, dlVars, toolVars, misc, client, remoteAdmins, remoteGroupAdmins, remoteTags,
                    observed0, allAdmins, pendingAdd, pendingRemove, calls >>

UploadNext ==
    \/ FetchAdmins
    \/ ReconcileAdmins
    \/ AddAdmin
    \/ RemoveAdmin
    \/ ReconcileGroups
    \/ AddGroupAdmin
    \/ RemoveGroupAdmin
    \/ ReconcileTags
    \/ RemoveTag
    \/ AddTag
    \/ EndLoop

SpecUpload == UploadInit /\ [][UploadNext]_vars


(***************************************************************************)
(* Properties of the reconciliation (SpecUpload).                          *)
(***************************************************************************)
CallsOf(op) == { i \in DOMAIN calls : calls[i].op = op }

NamesCalled(op) == { calls[i].name : i \in CallsOf(op) }

\* Every call of `first` comes before every call of `second`.
AllBefore(first, second) ==
    \A i \in CallsOf(first), j \in CallsOf(second) : i < j

\* The three governed sets, case-normalised: what is configured (desired),
\* what the platform held when the upload began (observed) and holds now.
DesiredOf(kind) ==
    CASE kind = "admin" -> LowerSet(misc.admins)
      [] kind = "group" -> LowerSet(misc.admin_groups)
      [] kind = "tag" -> LowerSet(misc.tags)

ObservedOf(kind) ==
    CASE kind = "admin" -> AdminNames(observed0.admins)
      [] kind = "group" -> AdminNames(observed0.group_admins)
      [] kind = "tag" -> LowerSet(observed0.tags)

RemoteOf(kind) ==
    CASE kind = "admin" -> AdminNames(remoteAdmins)
      [] kind = "group" -> AdminNames(remoteGroupAdmins)
      [] kind = "tag" -> LowerSet(remoteTags)

\* Whether the configuration declares a desired set of this kind at all.
Declares(kind) == kind = "tag" => misc.hasTags

\* What the code takes as governing the set: a non-empty list, or a tags key.
Governs(kind) ==
    CASE kind = "admin" -> Truthy(misc.admins)
      [] kind = "group" -> Truthy(misc.admin_groups)
      [] kind = "tag" -> misc.hasTags

AddOp(kind) ==
    CASE kind = "admin" -> "addAdmin"
      [] kind = "group" -> "addGroupAdmin"
      [] kind = "tag" -> "addTag"

RemoveOp(kind) ==
    CASE kind = "admin" -> "removeAdmin"
      [] kind = "group" -> "removeGroupAdmin"
      [] kind = "tag" -> "removeTag"

Kinds == {"admin", "group", "tag"}

\* The remote tags that carry the restricted prefix, case-normalised.
RestrictedObserved ==
    { Lower(t) : t \in { u \in observed0.tags : StartsWith(u, RestrictedPrefix) } }

\* The items whose removal the reconciler is to suppress.
Suppressed(kind) ==
    CASE kind = "admin" -> {Lower(ActingIdentity)}
      [] kind = "group" -> {}
      [] kind = "tag" -> RestrictedObserved

\* C2 as claimed: after a reconciliation in which no call failed, each remote
\* set equals the desired set, suppressed items aside, for every desired set,
\* the empty one included.
C2_EqualsDesiredAlways ==
    upc = "done" =>
        \A kind \in Kinds :
            Declares(kind) =>
                RemoteOf(kind) \ Suppressed(kind) = DesiredOf(kind) \ Suppressed(kind)

\* C2 as amended: after a reconciliation in which no call failed, the remote
\* admins (admin groups) equal the desired ones, suppressed items aside, when
\* the configured list is not empty, and are what they were when it is empty;
\* the remote tags equal the desired tags, suppressed items aside, whenever the
\* configuration has a tags key, an empty list included.
C2_EqualsDesiredWhenGoverned ==
    upc = "done" =>
        \A kind \in Kinds :
            IF Governs(kind)
            THEN RemoteOf(kind) \ Suppressed(kind) = DesiredOf(kind) \ Suppressed(kind)
            ELSE RemoteOf(kind) = ObservedOf(kind)

C2_Witness ==
    /\ upc = "done"
    /\ \A kind \in Kinds :
         /\ Governs(kind)
         /\ CallsOf(AddOp(kind)) # {}
         /\ CallsOf(RemoveOp(kind)) # {}

\* C3 as claimed: a finished reconciliation has issued, for each set the
\* configuration governs, one add call for each item of D - O and one remove
\* call for each item of O - D that is not suppressed, and no other call.
C3_ExactCalls ==
    upc = "done" =>
        \A kind \in Kinds :
            Governs(kind) =>
                /\ NamesCalled(AddOp(kind)) = DesiredOf(kind) \ ObservedOf(kind)
                /\ Cardinality(CallsOf(AddOp(kind)))
                     = Cardinality(DesiredOf(kind) \ ObservedOf(kind))
                /\ NamesCalled(RemoveOp(kind))
                     = (ObservedOf(kind) \ DesiredOf(kind)) \ Suppressed(kind)
                /\ Cardinality(CallsOf(RemoveOp(kind)))
                     = Cardinality((ObservedOf(kind) \ DesiredOf(kind)) \ Suppressed(kind))

\* C4 as claimed: remove-admin is never called for the acting identity.
C4_NeverRemovesSelf ==
    \A i \in CallsOf("removeAdmin") : calls[i].name # Lower(ActingIdentity)

\* C5 as claimed: remove-tag is never called for a remote tag that carries the
\* restricted prefix, and such a tag is still there after reconciliation.
C5_NeverRemovesRestricted ==
    /\ \A i \in CallsOf("removeTag") : calls[i].name \notin RestrictedObserved
    /\ upc = "done" => RestrictedObserved \subseteq LowerSet(remoteTags)

\* C6 as claimed: for each of the three sets, every add call comes before any
\* remove call of that set.
C6_AddsBeforeRemoves ==
    \A kind \in Kinds : AllBefore(AddOp(kind), RemoveOp(kind))

\* C6 as amended: for admins and for admin groups every add call comes before
\* any remove call of that set; for tags every remove call comes before any
\* add call.
C6_LoopOrder ==
    /\ AllBefore("addAdmin", "removeAdmin")
    /\ AllBefore("addGroupAdmin", "removeGroupAdmin")
    /\ AllBefore("removeTag", "addTag")

C6_Witness ==
    \A kind \in Kinds : CallsOf(AddOp(kind)) # {} /\ CallsOf(RemoveOp(kind)) # {}

\* The calls the code sets out to make for a set, from what it observed.
ExpectedAdds(kind) ==
    CASE kind = "admin" -> AdminsToAdd(ObservedOf(kind), DesiredOf(kind), ClientAdmin(client))
      [] kind = "group" -> GroupsToAdd(ObservedOf(kind), DesiredOf(kind))
      [] kind = "tag" -> TagsToAdd(ObservedOf(kind), DesiredOf(kind))

ExpectedRemoves(kind) ==
    CASE kind = "admin" -> AdminsToRemove(ObservedOf(kind), DesiredOf(kind), ClientAdmin(client))
      [] kind = "group" -> GroupsToRemove(ObservedOf(kind), DesiredOf(kind))
      [] kind = "tag" -> { t \in TagsToRemove(ObservedOf(kind), DesiredOf(kind)) : ~SkipsTag(t) }

\* C7 as claimed: when an add or remove call has failed, the run still issues
\* every other add and remove call of that set and of the sets after it.
C7_FailureDoesNotAbort ==
    (upc \in {"done", "raised"} /\ \E i \in DOMAIN calls : ~calls[i].ok) =>
        \A kind \in Kinds :
            Governs(kind) =>
                /\ ExpectedAdds(kind) \subseteq NamesCalled(AddOp(kind))
                /\ ExpectedRemoves(kind) \subseteq NamesCalled(RemoveOp(kind))


\* No call of the kind has been made and the platform's set of the kind is
\* what it was when the upload began.
Untouched(kind) ==
    /\ CallsOf(AddOp(kind)) = {}
    /\ CallsOf(RemoveOp(kind)) = {}
    /\ RemoteOf(kind) = ObservedOf(kind)

\* C29: at every point of uploadProblemZip, a configuration with no admins
\* has caused no addAdmin or removeAdmin call, one with no admin groups no
\* addGroupAdmin or removeGroupAdmin call, one without a tags key no addTag
\* or removeTag call, and the platform's set of that kind is as it was: what
\* one kind declares never touches another kind.
C29_UngovernedUntouched ==
    /\ (misc.admins = {}) => Untouched("admin")
    /\ (misc.admin_groups = {}) => Untouched("group")
    /\ (~misc.hasTags) => Untouched("tag")

\* C29, its case: a finished upload that declared admins only and called
\* both addAdmin and removeAdmin, while the platform held group admins and
\* tags.
C29_Witness ==
    /\ upc = "done"
    /\ misc.admins # {}
    /\ misc.admin_groups = {}
    /\ ~misc.hasTags
    /\ CallsOf("addAdmin") # {}
    /\ CallsOf("removeAdmin") # {}
    /\ observed0.group_admins # {}
    /\ observed0.tags # {}

(***************************************************************************)
(* upload.py, uploadProblem and uploadProblemZip up to line 214, step by   *)
(* step.  At "reconcile" control is at line 216, where the reconciliation  *)
(* of admins, groups and tags begins.                                      *)
(***************************************************************************)
DeployInit ==
    /\ ZipIdle
    /\ BaselineIdle
    /\ BulkIdle
    /\ ValidateIdle
    /\ StoreIdle
    /\ UploadIdle
    /\ SyncIdle
    /\ DownloadIdle
    /\ deployPath \in DeployPaths
    /\ canCreate \in BOOLEAN
    /\ remoteProblem \in BOOLEAN
    /\ exists = None
    /\ courseInfo = NoCourseInfo
    /\ ppc = "start"
    /\ requests = << >>

\* uploadProblem, lines 309-325
DeployPrepare ==
    /\ ppc = "start"
    /\ courseInfo' = InferAliases(deployPath)
    /\ ppc' = "query"
    /\ UNCHANGED << uploadVars, syncVars, dlVars, zipVars, baseVars, bulkVars, valVars,
                    manVars, deployPath, canCreate, remoteProblem, exists, requests >>

\* lines 149-152: the platform answers with a status, or the call raises.
DeployQuery ==
    /\ ppc = "query"
    /\ \E raises \in BOOLEAN :
          IF raises
          THEN /\ ppc' = "raised"
               /\ exists' = exists
          ELSE /\ ppc' = "endpoint"
               /\ exists' = IF remoteProblem THEN "true" ELSE "false"
    /\ UNCHANGED << uploadVars, syncVars, dlVars, zipVars, baseVars, bulkVars, valVars,
                    manVars, deployPath, canCreate, remoteProblem, courseInfo, requests >>

\* lines 154-173: the endpoint is chosen and the archive is sent.
DeployUpload ==
    /\ ppc = "endpoint"
    /\ IF ~MayUpload(exists = "true", canCreate)
       THEN /\ ppc' = "raised"
            /\ UNCHANGED << requests, remoteProblem >>
       ELSE \E ok \in BOOLEAN :
              /\ requests' = Append(requests, Request(Endpoint(exists = "true"), ok, ""))
              /\ remoteProblem' = (remoteProblem \/ ok)
              /\ ppc' = IF ~ok THEN "raised"
                        ELSE IF LinksCourse(exists = "true", courseInfo)
                        THEN "link:details"
                        ELSE "reconcile"
    /\ UNCHANGED << uploadVars, syncVars, dlVars, zipVars, baseVars, bulkVars, valVars,
                    manVars, deployPath, canCreate, exists, courseInfo >>

\* lines 180-184 (points default to 100.0, line 199); an exception goes to
\* the except at 208-209
LinkDetails ==
    /\ ppc = "link:details"
    /\ \/ /\ requests' = Append(requests, Request("assignmentDetails", FALSE, ""))
          /\ ppc' = "reconcile"
       \/ \E details \in DetailsAnswers :
             /\ requests' = Append(requests, Request("assignmentDetails", TRUE, details))
             /\ ppc' = "link:versions"
    /\ UNCHANGED << uploadVars, syncVars, dlVars, zipVars, baseVars, bulkVars, valVars,
                    manVars, deployPath, canCreate, remoteProblem, exists, courseInfo >>

\* lines 186-193: with no published version the commit is ''
LinkVersions ==
    /\ ppc = "link:versions"
    /\ \/ /\ requests' = Append(requests, Request("versions", FALSE, ""))
          /\ ppc' = "reconcile"
       \/ \E published \in PublishedAnswers :
             /\ requests' = Append(requests, Request("versions", TRUE, published))
             /\ ppc' = "link:add"
    /\ UNCHANGED << uploadVars, syncVars, dlVars, zipVars, baseVars, bulkVars, valVars,
                    manVars, deployPath, canCreate, remoteProblem, exists, courseInfo >>

\* lines 195-209
LinkAddProblem ==
    /\ ppc = "link:add"
    /\ \E ok \in BOOLEAN :
          requests' = Append(requests, Request("addProblem", ok, ""))
    /\ ppc' = "reconcile"
    /\ UNCHANGED << uploadVars, syncVars, dlVars, zipVars, baseVars, bulkVars, valVars,
                    manVars, deployPath, canCreate, remoteProblem, exists, courseInfo >>

DeployNext ==
    \/ DeployPrepare
    \/ DeployQuery
    \/ DeployUpload
    \/ LinkDetails
    \/ LinkVersions
    \/ LinkAddProblem

SpecDeploy == DeployInit /\ [][DeployNext]_vars

RequestsOf(ops) == { i \in DOMAIN requests : requests[i].op \in ops }

LastRequest == requests[Len(requests)]

\* C32: a linking call is made, or about to be made, only when the query
\* had found the problem and both inferred aliases are non-empty, and then
\* the first request was the update of the archive, which succeeded; an
\* upload that made a linking call has not raised; after a linking call
\* that failed control is at the reconciliation; and after a versions
\* answer without a published commit the link goes on to addProblem.
C32_LinkOnlyOnUpdate ==
    /\ (RequestsOf(LinkOps) # {} \/ ppc \in {"link:details", "link:versions", "link:add"}) =>
          /\ exists = "true"
          /\ courseInfo.course_alias # ""
          /\ courseInfo.assignment_alias # ""
          /\ requests[1] = Request("update", TRUE, "")
          /\ \A i \in RequestsOf(LinkOps) : i > 1
    /\ (RequestsOf(LinkOps) # {}) => ppc # "raised"
    /\ (requests # << >> /\ LastRequest.op \in LinkOps /\ ~LastRequest.ok) =>
          ppc = "reconcile"
    /\ (requests # << >> /\ LastRequest = Request("versions", TRUE, "")) =>
          ppc = "link:add"

\* C32, its case: the problem existed, the versions answer had no published
\* commit, addProblem failed, and control is at the reconciliation.
C32_Witness ==
    /\ ppc = "reconcile"
    /\ exists = "true"
    /\ \E i \in DOMAIN requests : requests[i] = Request("versions", TRUE, "")
    /\ LastRequest = Request("addProblem", FALSE, "")

\* C33: when the query found no problem and canCreate is false, no request
\* follows the query and the upload raises; a create request is made only
\* when the query found no problem and canCreate is true, an update request
\* only when the query found the problem.
C33_NoCreateNoCalls ==
    /\ (exists = "false" /\ ~canCreate) =>
          (requests = << >> /\ ppc \in {"endpoint", "raised"})
    /\ \A i \in DOMAIN requests :
          /\ (requests[i].op = "create") => (exists = "false" /\ canCreate)
          /\ (requests[i].op = "update") => exists = "true"
    /\ (exists = None) => requests = << >>

\* C33, its case: the platform did not hold the problem, creation was not
\* allowed, and the upload of a problem with inferred aliases has raised
\* with no request made.
C33_Witness ==
    /\ ppc = "raised"
    /\ exists = "false"
    /\ ~canCreate
    /\ requests = << >>
    /\ courseInfo.course_alias # ""

(***************************************************************************)
(* update_assignment_problems.py: main, process_add, process_remove, step  *)
(* by step.  The process may be interrupted between any two steps, and     *)
(* main started again on what the disk and the platform then hold.         *)
(***************************************************************************)
SyncLinks == { l \in LinkUniverse : l[1] \in COURSE_ALIASES }

\* A fixed enumeration of the links, for the order of the first manifest.
LinkOrder ==
    CHOOSE s \in [1..Cardinality(LinkUniverse) -> LinkUniverse] :
        \A l \in LinkUniverse : \E k \in DOMAIN s : s[k] = l

LinkOf(it) == << it.course_alias, it.assignment_alias, it.problem_alias >>

PathOf(link) == ManifestPath(link[1], link[2], link[3])

FolderOf(link) == ProblemFolder(link[1], link[2], link[3])

\* What the platform, the manifest and the tree hold when each link of
\* `linked` has been added by an earlier run, and the assignments of
\* `assigned` exist.
WorldOf(linked, assigned) ==
    /\ remoteLinks = linked
    /\ remoteAssignments = assigned \cup { AssignmentOf(l) : l \in linked }
    /\ problemsJson =
         LET present == SelectSeq(LinkOrder, LAMBDA l : l \in linked)
         IN  [k \in DOMAIN present |-> PathOf(present[k])]
    /\ mirror = [f \in FolderUniverse |->
                    IF \E l \in linked : f = FolderOf(l) THEN "unpacked"
                    ELSE IF \E l \in linked : f = AssignmentFolder(l[1], l[2]) THEN "dir"
                    ELSE "absent"]

SyncInit ==
    /\ ToolsIdle
    /\ UploadIdle
    /\ DownloadIdle
    /\ \E linked \in SUBSET SyncLinks,
          assigned \in SUBSET { AssignmentOf(l) : l \in SyncLinks } :
            WorldOf(linked, assigned)
    /\ \E present \in BOOLEAN,
          adds \in SeqsUpTo(AddItemUniverse, MaxAdd),
          removes \in SeqsUpTo(RemoveItemUniverse, MaxRemove) :
            /\ (~present => adds = << >> /\ removes = << >>)
            /\ inputFile = [exists |-> present, add_problem |-> adds,
                            remove_problem |-> removes]
    /\ data = EmptyRequest
    /\ problems_data = << >>
    /\ spc = "start"
    /\ item = 0
    /\ cur = NoCalls
    /\ run = 1
    /\ applied = NoChanges
    /\ faults = FALSE

NextItem(loop) ==
    /\ spc' = loop
    /\ item' = item + 1

\* lines 273-285
SyncMain ==
    /\ spc = "start"
    /\ IF inputFile.exists
       THEN /\ data' = inputFile
            /\ problems_data' = problemsJson
            /\ applied' = [applied EXCEPT ![run].loaded = problemsJson]
            /\ spc' = "add"
            /\ item' = 1
       ELSE /\ spc' = "done"
            /\ UNCHANGED << data, problems_data, item, applied >>
    /\ UNCHANGED << uploadVars, dlVars, toolVars, inputFile, problemsJson, mirror, remoteAssignments,
                    remoteLinks, cur, run, faults >>

\* lines 146-156: the item's fields are read (a missing "points" raises
\* outside the try), then the course is checked.
AddItemBegin ==
    /\ spc = "add"
    /\ cur' = NoCalls
    /\ IF item > Len(data.add_problem)
       THEN /\ spc' = "remove"
            /\ item' = 1
       ELSE LET it == data.add_problem[item]
            IN  IF ~it.has_points
                THEN /\ spc' = "raised"
                     /\ item' = item
                ELSE IF it.course_alias \notin COURSE_ALIASES
                THEN NextItem("add")
                ELSE /\ spc' = "add:list"
                     /\ item' = item
    /\ UNCHANGED << uploadVars, dlVars, toolVars, inputFile, problemsJson, mirror, remoteAssignments,
                    remoteLinks, data, problems_data, run, applied, faults >>

\* lines 159-161
AddList ==
    /\ spc = "add:list"
    /\ LET it == data.add_problem[item]
       IN  \E ok \in BOOLEAN :
             /\ cur' = [cur EXCEPT !.listed = IF ok THEN "ok" ELSE "error"]
             /\ faults' = (faults \/ ~ok)
             /\ IF ~ok
                THEN NextItem("add")
                ELSE /\ item' = item
                     /\ spc' = IF assignment_exists(remoteAssignments, it.course_alias,
                                                    it.assignment_alias)
                               THEN "add:link"
                               ELSE "add:create"
    /\ UNCHANGED << uploadVars, dlVars, toolVars, inputFile, problemsJson, mirror, remoteAssignments,
                    remoteLinks, data, problems_data, run, applied >>

\* line 162 and create_assignment, lines 54-73: whatever the call raises is
\* logged there and not passed on.
AddCreate ==
    /\ spc = "add:create"
    /\ LET it == data.add_problem[item]
       IN  \E answer \in CreateAssignmentAnswers :
             /\ cur' = [cur EXCEPT !.create = answer]
             /\ faults' = (faults \/ answer = "error")
             /\ remoteAssignments' =
                    IF answer = "error" THEN remoteAssignments
                    ELSE remoteAssignments \cup {<< it.course_alias, it.assignment_alias >>}
             /\ applied' =
                    IF answer = "ok"
                    THEN [applied EXCEPT ![run].created =
                              @ \cup {<< it.course_alias, it.assignment_alias >>}]
                    ELSE applied
             /\ spc' = "add:link"
    /\ UNCHANGED << uploadVars, dlVars, toolVars, inputFile, problemsJson, mirror, remoteLinks,
                    data, problems_data, item, run >>

\* lines 164-174
AddLink ==
    /\ spc = "add:link"
    /\ LET it == data.add_problem[item]
           link == LinkOf(it)
           folder == AssignmentFolder(it.course_alias, it.assignment_alias)
       IN  \E answer \in AddProblemAnswers(remoteAssignments, link) :
             /\ cur' = [cur EXCEPT !.link = answer]
             /\ faults' = (faults \/ answer = "error")
             /\ IF Raises(answer)
                THEN /\ NextItem("add")
                     /\ UNCHANGED << remoteLinks, mirror, applied >>
                ELSE /\ remoteLinks' = remoteLinks \cup {link}
                     /\ applied' = [applied EXCEPT ![run].added = @ \cup {link}]
                     /\ mirror' = [mirror EXCEPT ![folder] = "dir"]
                     /\ spc' = "add:download"
                     /\ item' = item
    /\ UNCHANGED << uploadVars, dlVars, toolVars, inputFile, problemsJson, remoteAssignments,
                    data, problems_data, run >>

\* lines 176-188 and download_and_unzip, lines 76-141
AddDownload ==
    /\ spc = "add:download"
    /\ LET it == data.add_problem[item]
           folder == ProblemFolder(it.course_alias, it.assignment_alias, it.problem_alias)
       IN  \E outcome \in DownloadOutcomes :
             LET success == DownloadReturns(outcome)
             IN  /\ cur' = [cur EXCEPT !.download = outcome]
                 /\ faults' = (faults \/ ~success)
                 /\ mirror' = [mirror EXCEPT ![folder] = FolderAfterDownload(outcome, @)]
                 /\ problems_data' =
                        IF AppendsEntry(success)
                        THEN add_problem_to_json(it.course_alias, it.assignment_alias,
                                                 it.problem_alias, problems_data)
                        ELSE problems_data
                 /\ problemsJson' = ManifestFileAfter(problemsJson, problems_data')
                 /\ NextItem("add")
    /\ UNCHANGED << uploadVars, dlVars, toolVars, inputFile, remoteAssignments,
                    remoteLinks, data, run, applied >>

\* lines 196-205
RemoveItemBegin ==
    /\ spc = "remove"
    /\ cur' = NoCalls
    /\ IF item > Len(data.remove_problem)
       THEN /\ spc' = "save"
            /\ item' = item
       ELSE IF data.remove_problem[item].course_alias \notin COURSE_ALIASES
       THEN NextItem("remove")
       ELSE /\ spc' = "remove:list"
            /\ item' = item
    /\ UNCHANGED << uploadVars, dlVars, toolVars, inputFile, problemsJson, mirror, remoteAssignments,
                    remoteLinks, data, problems_data, run, applied, faults >>

\* lines 208-211
RemoveList ==
    /\ spc = "remove:list"
    /\ LET it == data.remove_problem[item]
       IN  \E ok \in BOOLEAN :
             /\ cur' = [cur EXCEPT !.listed = IF ok THEN "ok" ELSE "error"]
             /\ faults' = (faults \/ ~ok)
             /\ IF ok /\ assignment_exists(remoteAssignments, it.course_alias,
                                           it.assignment_alias)
                THEN /\ spc' = "remove:call"
                     /\ item' = item
                ELSE NextItem("remove")
    /\ UNCHANGED << uploadVars, dlVars, toolVars, inputFile, problemsJson, mirror, remoteAssignments,
                    remoteLinks, data, problems_data, run, applied >>

\* lines 213-218
RemoveCall ==
    /\ spc = "remove:call"
    /\ LET link == LinkOf(data.remove_problem[item])
       IN  \E answer \in RemoveProblemAnswers(remoteLinks, link) :
             /\ cur' = [cur EXCEPT !.remove = answer]
             /\ faults' = (faults \/ answer = "error")
             /\ IF Raises(answer)
                THEN /\ NextItem("remove")
                     /\ UNCHANGED << remoteLinks, applied >>
                ELSE /\ remoteLinks' = remoteLinks \ {link}
                     /\ applied' = [applied EXCEPT ![run].removed = @ \cup {link}]
                     /\ spc' = "remove:local"
                     /\ item' = item
    /\ UNCHANGED << uploadVars, dlVars, toolVars, inputFile, problemsJson, mirror, remoteAssignments,
                    data, problems_data, run >>

\* lines 220-236
RemoveLocal ==
    /\ spc = "remove:local"
    /\ LET it == data.remove_problem[item]
           folder == FolderOf(LinkOf(it))
       IN  /\ IF mirror[folder] # "absent"
              THEN \E ok \in BOOLEAN :
                     /\ cur' = [cur EXCEPT !.rmtree = IF ok THEN "ok" ELSE "error"]
                     /\ faults' = (faults \/ ~ok)
                     /\ mirror' = IF ok THEN [mirror EXCEPT ![folder] = "absent"]
                                  ELSE mirror
              ELSE /\ cur' = [cur EXCEPT !.rmtree = "missing"]
                   /\ UNCHANGED << mirror, faults >>
           /\ problems_data' =
                  remove_problem_from_json(it.course_alias, it.assignment_alias,
                                           it.problem_alias, problems_data)
           /\ problemsJson' = ManifestFileAfter(problemsJson, problems_data')
           /\ NextItem("remove")
    /\ UNCHANGED << uploadVars, dlVars, toolVars, inputFile, remoteAssignments,
                    remoteLinks, data, run, applied >>

\* line 287 and save_problems_json, lines 250-252
SaveManifest ==
    /\ spc = "save"
    /\ problemsJson' = problems_data
    /\ spc' = "clear"
    /\ UNCHANGED << uploadVars, dlVars, toolVars, inputFile, mirror, remoteAssignments, remoteLinks,
                    data, problems_data, item, cur, run, applied, faults >>

\* lines 289-294
ClearRequest ==
    /\ spc = "clear"
    /\ \E ok \in BOOLEAN :
         /\ inputFile' = IF ok THEN EmptyRequest ELSE inputFile
         /\ cur' = [cur EXCEPT !.clear = IF ok THEN "ok" ELSE "error"]
         /\ faults' = (faults \/ ~ok)
    /\ spc' = "done"
    /\ UNCHANGED << uploadVars, dlVars, toolVars, problemsJson, mirror, remoteAssignments, remoteLinks,
                    data, problems_data, item, run, applied >>

\* lines 297-298: main returns (status 0) or an exception nobody caught ends
\* the process (status 1).
SyncExitStatus == IF spc = "raised" THEN 1 ELSE 0

Running ==
    spc \in {"add", "add:list", "add:create", "add:link", "add:download",
             "remove", "remove:list", "remove:call", "remove:local", "save", "clear"}

\* The process is interrupted: what it held in memory is lost.
Crash ==
    /\ Running
    /\ spc' = "crashed"
    /\ data' = EmptyRequest
    /\ problems_data' = << >>
    /\ item' = 0
    /\ cur' = NoCalls
    /\ faults' = FALSE
    /\ UNCHANGED << uploadVars, dlVars, toolVars, inputFile, problemsJson, mirror, remoteAssignments,
                    remoteLinks, run, applied >>

\* main is started again on the same pending-request file.
Rerun ==
    /\ spc = "crashed"
    /\ run < MaxRuns
    /\ run' = run + 1
    /\ spc' = "start"
    /\ UNCHANGED << uploadVars, dlVars, toolVars, inputFile, problemsJson, mirror, remoteAssignments,
                    remoteLinks, data, problems_data, item, cur, applied, faults >>

SyncNext ==
    \/ SyncMain
    \/ AddItemBegin
    \/ AddList
    \/ AddCreate
    \/ AddLink
    \/ AddDownload
    \/ RemoveItemBegin
    \/ RemoveList
    \/ RemoveCall
    \/ RemoveLocal
    \/ SaveManifest
    \/ ClearRequest

(***************************************************************************)
(* download_and_sync_courses.py: main, step by step.                       *)
(***************************************************************************)
DownloadInit ==
    /\ ToolsIdle
    /\ UploadIdle
    /\ \E linked \in SUBSET LinkUniverse,
          assigned \in SUBSET { AssignmentOf(l) : l \in LinkUniverse } :
            WorldOf(linked, assigned)
    /\ inputFile = EmptyRequest
    /\ data = EmptyRequest
    /\ problems_data = << >>
    /\ spc = "idle"
    /\ item = 0
    /\ cur = NoCalls
    /\ run = 0
    /\ applied = NoChanges
    /\ faults = FALSE
    /\ dpc = "start"
    /\ all_problems = << >>
    /\ dlCourse = 0
    /\ dlAssignments = {}
    /\ dlAssignment = ""
    /\ dlProblems = {}
    /\ downloaded = "none"

\* lines 206-215: the Courses folder is deleted and made anew.
DlMain ==
    /\ dpc = "start"
    /\ mirror' = [f \in FolderUniverse |-> "absent"]
    /\ all_problems' = << >>
    /\ dlCourse' = 1
    /\ dpc' = "course"
    /\ UNCHANGED << uploadVars, toolVars, inputFile, problemsJson, remoteAssignments, remoteLinks,
                    data, problems_data, spc, item, cur, run, applied, faults,
                    dlAssignments, dlAssignment, dlProblems, downloaded >>

\* lines 217-226 and 280-281
DlCourse ==
    /\ dpc = "course"
    /\ IF dlCourse > Len(DL_COURSE_ALIASES)
       THEN /\ dpc' = "write"
            /\ UNCHANGED << dlCourse, dlAssignments >>
       ELSE \E ok \in BOOLEAN :
              LET course_alias == DL_COURSE_ALIASES[dlCourse]
                  assignments == { a[2] : a \in { b \in remoteAssignments :
                                                      b[1] = course_alias } }
              IN  IF ok /\ assignments # {}
                  THEN /\ dlAssignments' = assignments
                       /\ dpc' = "assignment"
                       /\ dlCourse' = dlCourse
                  ELSE /\ dlCourse' = dlCourse + 1
                       /\ dpc' = "course"
                       /\ dlAssignments' = dlAssignments
    /\ UNCHANGED << uploadVars, toolVars, syncVars, all_problems, dlAssignment, dlProblems,
                    downloaded >>

\* lines 228-247 and 274-278
DlAssignment ==
    /\ dpc = "assignment"
    /\ IF dlAssignments = {}
       THEN /\ dlCourse' = dlCourse + 1
            /\ dpc' = "course"
            /\ UNCHANGED << dlAssignments, dlAssignment, dlProblems, mirror >>
       ELSE \E assignment_alias \in dlAssignments, ok \in BOOLEAN :
              LET course_alias == DL_COURSE_ALIASES[dlCourse]
              IN  /\ dlAssignments' = dlAssignments \ {assignment_alias}
                  /\ dlAssignment' = assignment_alias
                  /\ dlCourse' = dlCourse
                  /\ IF ok
                     THEN /\ mirror' = [mirror EXCEPT
                              ![DlAssignmentFolder(course_alias, assignment_alias)] = "dir"]
                          /\ dlProblems' = { l[3] : l \in { m \in remoteLinks :
                                  m[1] = course_alias /\ m[2] = assignment_alias } }
                          /\ dpc' = "problem"
                     ELSE /\ dpc' = "assignment"
                          /\ UNCHANGED << mirror, dlProblems >>
    /\ UNCHANGED << uploadVars, toolVars, inputFile, problemsJson, remoteAssignments, remoteLinks,
                    data, problems_data, spc, item, cur, run, applied, faults,
                    all_problems, downloaded >>

\* lines 249-272 and download_and_unzip, lines 118-203
DlProblem ==
    /\ dpc = "problem"
    /\ IF dlProblems = {}
       THEN /\ dpc' = "assignment"
            /\ UNCHANGED << dlProblems, mirror, all_problems, downloaded >>
       ELSE \E problem \in dlProblems, outcome \in DownloadOutcomes :
              LET course_alias == DL_COURSE_ALIASES[dlCourse]
                  folder == DlProblemFolder(course_alias, dlAssignment, problem)
              IN  /\ dlProblems' = dlProblems \ {problem}
                  /\ downloaded' = outcome
                  /\ mirror' = [mirror EXCEPT ![folder] = FolderAfterDownload(outcome, @)]
                  /\ all_problems' =
                         IF DlAppendsPath(DownloadReturns(outcome))
                         THEN Append(all_problems,
                                     DlRelPath(course_alias, dlAssignment, problem))
                         ELSE all_problems
                  /\ dpc' = "problem"
    /\ UNCHANGED << uploadVars, toolVars, inputFile, problemsJson, remoteAssignments, remoteLinks,
                    data, problems_data, spc, item, cur, run, applied, faults,
                    dlCourse, dlAssignments, dlAssignment >>

\* lines 283-289
DlWrite ==
    /\ dpc = "write"
    /\ problemsJson' = all_problems
    /\ dpc' = "done"
    /\ UNCHANGED << uploadVars, toolVars, inputFile, mirror, remoteAssignments, remoteLinks,
                    data, problems_data, spc, item, cur, run, applied, faults,
                    all_problems, dlCourse, dlAssignments, dlAssignment, dlProblems,
                    downloaded >>

DownloadNext ==
    \/ DlMain
    \/ DlCourse
    \/ DlAssignment
    \/ DlProblem
    \/ DlWrite

CoursesInit == SyncInit \/ DownloadInit

\* The two programs that write problems.json, each run once.
SpecSync == CoursesInit /\ [][SyncNext \/ DownloadNext]_vars

\* The course-sync workflow, interrupted and started again.
SpecSyncCrash == SyncInit /\ [][SyncNext \/ Crash \/ Rerun]_vars

(***************************************************************************)
(* Properties of the course workflows.                                     *)
(***************************************************************************)
AddPositions == {"add", "add:list", "add:create", "add:link", "add:download"}

Entries(problems) == { problems[k] : k \in DOMAIN problems }

Unpacked == {"unpacked", "unpackedNoSettings", "unpackedBadSettings"}

\* The item process_add or process_remove handled last, once spc is back at
\* the head of the loop.
LastAdd == data.add_problem[item - 1]

LastRemove == data.remove_problem[item - 1]

\* C1: while process_add works on an item, the in-memory manifest changes in
\* one step only, the one after download_and_unzip, and only when addProblem
\* had succeeded and the download returned True: the change is then the
\* item's entry, appended. In every other step of an item, failed ones
\* included, the manifest stays as it was. In the full course download a
\* path joins all_problems only in the step whose download_and_unzip
\* returned True, and problems.json is written from all_problems.
C1_EntryOnlyAfterSuccess ==
    [][ /\ (spc \in AddPositions /\ problems_data' # problems_data) =>
              /\ spc = "add:download"
              /\ cur.link = "ok"
              /\ DownloadReturns(cur'.download)
              /\ problems_data' =
                     Append(problems_data, PathOf(LinkOf(data.add_problem[item])))
        /\ (spc \in AddPositions /\ spc' = "add" /\ item' = item + 1
               /\ ~(cur'.link = "ok" /\ DownloadReturns(cur'.download))) =>
              problems_data' = problems_data
        /\ (all_problems' # all_problems) =>
              /\ dpc = "problem"
              /\ DownloadReturns(downloaded')
              /\ \E problem \in dlProblems :
                    /\ all_problems' =
                           Append(all_problems,
                                  DlRelPath(DL_COURSE_ALIASES[dlCourse], dlAssignment,
                                            problem))
                    /\ mirror'[DlProblemFolder(DL_COURSE_ALIASES[dlCourse], dlAssignment,
                                               problem)] \in Unpacked
        /\ (dpc = "write" /\ dpc' = "done") => problemsJson' = all_problems
      ]_vars

\* C1, its case: an item whose addProblem succeeded and whose download failed
\* has been handled, and the manifest has no entry for it.
C1_Witness ==
    /\ spc = "add"
    /\ item > 1
    /\ cur.link = "ok"
    /\ cur.download = "badZip"
    /\ PathOf(LinkOf(LastAdd)) \notin Entries(problems_data)

\* C8: when a run that was interrupted before the pending-request file was
\* cleared is followed by a run on the same file that meets no failure, a
\* link the interrupted run removed on the platform ends with no manifest
\* entry and no mirror folder, and a link it added (and the request does not
\* remove) ends with its manifest entry.
C8_RerunConverges ==
    (spc = "done" /\ run > 1 /\ ~faults) =>
        /\ \A l \in applied[1].removed :
              /\ PathOf(l) \notin Entries(problemsJson)
              /\ mirror[FolderOf(l)] = "absent"
              /\ l \notin remoteLinks
        /\ \A l \in applied[1].added \ applied[1].removed :
              (\A k \in DOMAIN data.remove_problem :
                    LinkOf(data.remove_problem[k]) # l)
                  => PathOf(l) \in Entries(problemsJson) /\ l \in remoteLinks

\* C9: an item the platform answered with 'already removed' is handled as a
\* removal that succeeded (its mirror folder is gone and the manifest has no
\* entry for it), and after an 'already exists' answer to createAssignment
\* the add goes on to addProblem.
C9_IdempotentAnswersSucceed ==
    /\ (spc = "remove" /\ item > 1 /\ cur.remove = "alreadyRemoved") =>
          /\ PathOf(LinkOf(LastRemove)) \notin Entries(problems_data)
          /\ mirror[FolderOf(LinkOf(LastRemove))] = "absent"
    /\ (cur.create = "alreadyExists") => (spc = "add:link" \/ cur.link # "none")

\* C10: in the add path an item stops at the step that failed: after a
\* createAssignment that failed neither addProblem nor the download is
\* called, after an addProblem that failed no download is called, and the
\* loop is then at the next item.
C10_FailureStopsItem ==
    /\ (cur.create = "error") => (cur.link = "none" /\ cur.download = "none")
    /\ (cur.link \notin {"none", "ok"}) => (cur.download = "none" /\ spc = "add")

\* A run of main that has stopped, after it found the pending-request file.
SyncStopped == inputFile.exists /\ spc \in {"done", "raised"}

\* C11: a run that found the pending-request file stops with the manifest
\* saved (problems.json holds the in-memory manifest) and, unless the write
\* of the request file itself failed, with both arrays of the request file
\* empty, whatever the items were; and the request file is cleared only
\* after the manifest was saved.
C11_RunEndsSavedAndCleared ==
    /\ SyncStopped =>
          /\ problemsJson = problems_data
          /\ (cur.clear = "error"
                \/ (inputFile.add_problem = << >> /\ inputFile.remove_problem = << >>))
    /\ (cur.clear = "ok") => problemsJson = problems_data

\* An item of the run in progress that did not succeed: a rejected course,
\* or a failed call, download or write.
SyncItemFailed ==
    \/ faults
    \/ \E k \in DOMAIN data.add_problem : data.add_problem[k].course_alias \notin COURSE_ALIASES
    \/ \E k \in DOMAIN data.remove_problem :
          data.remove_problem[k].course_alias \notin COURSE_ALIASES

\* The loop of process_add or process_remove is at an item whose course is
\* not one of COURSE_ALIASES.
AtRejectedItem ==
    \/ /\ spc = "add"
       /\ item <= Len(data.add_problem)
       /\ data.add_problem[item].course_alias \notin COURSE_ALIASES
    \/ /\ spc = "remove"
       /\ item <= Len(data.remove_problem)
       /\ data.remove_problem[item].course_alias \notin COURSE_ALIASES

\* C22: the step that handles an item whose course is not in the allow-list
\* makes no remote call, leaves the platform, the mirror and the manifest
\* (in memory and on disk) as they were, and puts the same loop at the next
\* item, so that the items after it are still handled.
C22_RejectedItemOnly ==
    [][ AtRejectedItem =>
          /\ cur' = NoCalls
          /\ UNCHANGED << remoteAssignments, remoteLinks, mirror, problems_data,
                          problemsJson >>
          /\ spc' = spc
          /\ item' = item + 1
      ]_vars

\* C23: createAssignment is called only from the add path, right after a
\* listing that succeeded, for an assignment the platform does not hold at
\* that moment, and never for an assignment this run has created before.
C23_CreatesOnlyWhenAbsent ==
    [][ (cur'.create # "none" /\ cur.create = "none") =>
          /\ spc = "add:create"
          /\ cur.listed = "ok"
          /\ AssignmentOf(LinkOf(data.add_problem[item])) \notin remoteAssignments
          /\ AssignmentOf(LinkOf(data.add_problem[item])) \notin applied[run].created
      ]_vars

\* C23, its case: the second add item is for the assignment the first one
\* created, and it has gone from the listing to addProblem with no
\* createAssignment call.
C23_Witness ==
    /\ spc = "add:link"
    /\ item = 2
    /\ cur.listed = "ok"
    /\ cur.create = "none"
    /\ AssignmentOf(LinkOf(data.add_problem[2])) \in applied[run].created

\* C24: when the listing fetched for a remove item succeeds and does not
\* hold the item's assignment, the step makes no removeProblem call and no
\* deletion, leaves the platform's links, the mirror and the manifest (in
\* memory and on disk) as they were, and puts the loop at the next item.
C24_AbsentAssignmentSkipsRemove ==
    [][ (/\ spc = "remove:list"
         /\ cur'.listed = "ok"
         /\ AssignmentOf(LinkOf(data.remove_problem[item])) \notin remoteAssignments) =>
          /\ spc' = "remove"
          /\ item' = item + 1
          /\ cur'.remove = "none"
          /\ cur'.rmtree = "none"
          /\ UNCHANGED << remoteLinks, remoteAssignments, mirror, problems_data,
                          problemsJson >>
      ]_vars

\* C24, its case: the first remove item was for an assignment the platform
\* does not hold; it was skipped after its listing, with a manifest that has
\* entries, and the loop has moved past it.
C24_Witness ==
    /\ spc = "remove"
    /\ item = 2
    /\ LastRemove.course_alias \in COURSE_ALIASES
    /\ AssignmentOf(LinkOf(LastRemove)) \notin remoteAssignments
    /\ cur.listed = "ok"
    /\ cur.remove = "none"
    /\ problemsJson # << >>

\* C25: a run that loaded an empty manifest and a request of one add item,
\* for an allowed course, and met no failure of the platform, the download
\* or the disk, stops with a manifest file of one entry, the path
\* <course>/<assignment>/<problem>, with the problem's mirror folder
\* unpacked, and with both arrays of the request file empty.
C25_SingleAddScenario ==
    (/\ spc \in {"done", "raised"}
     /\ Len(data.add_problem) = 1
     /\ data.remove_problem = << >>
     /\ data.add_problem[1].course_alias \in COURSE_ALIASES
     /\ applied[run].loaded = << >>
     /\ ~faults) =>
        LET it == data.add_problem[1]
        IN  /\ problemsJson = << it.course_alias \o "/" \o it.assignment_alias
                                    \o "/" \o it.problem_alias >>
            /\ mirror[FolderOf(LinkOf(it))] \in Unpacked
            /\ inputFile.add_problem = << >>
            /\ inputFile.remove_problem = << >>

RemovePositions == {"remove", "remove:list", "remove:call", "remove:local"}

\* While process_remove works on an item, the manifest and the mirror change
\* in one step only, the one after a removeProblem call that succeeded.
RemoveChangesOnlyAfterSuccess ==
    (spc \in RemovePositions /\ (problems_data' # problems_data \/ mirror' # mirror)) =>
        (spc = "remove:local" /\ cur.remove = "ok")

\* C26, as stated: once removeProblem has succeeded for a remove item, the
\* manifest has no entry for the problem and its mirror folder is gone, and
\* so the run ends; the manifest and the mirror change only after a
\* removeProblem that succeeded, and are left alone after one that failed.
C26_RemoveScenario ==
    [][ /\ (spc' = "remove" /\ item' > 1 /\ cur'.remove = "ok") =>
              /\ PathOf(LinkOf(LastRemove')) \notin Entries(problems_data')
              /\ mirror'[FolderOf(LinkOf(LastRemove'))] = "absent"
        /\ (spc' = "done") =>
              \A l \in applied'[run'].removed :
                    /\ PathOf(l) \notin Entries(problemsJson')
                    /\ mirror'[FolderOf(l)] = "absent"
        /\ RemoveChangesOnlyAfterSuccess
      ]_vars

\* C26, amended: the same, except that the mirror folder stays when deleting
\* it failed; the manifest entry is removed all the same.
C26_RemoveUnlessDeletionFails ==
    [][ /\ (spc' = "remove" /\ item' > 1 /\ cur'.remove = "ok") =>
              /\ PathOf(LinkOf(LastRemove')) \notin Entries(problems_data')
              /\ (cur'.rmtree = "error"
                    \/ mirror'[FolderOf(LinkOf(LastRemove'))] = "absent")
              /\ (cur'.rmtree = "error") => mirror' = mirror
        /\ (spc' = "done") =>
              \A l \in applied'[run'].removed :
                    /\ PathOf(l) \notin Entries(problemsJson')
                    /\ (faults' \/ mirror'[FolderOf(l)] = "absent")
        /\ RemoveChangesOnlyAfterSuccess
      ]_vars

\* C26, its case: removeProblem succeeded for an item that had a manifest
\* entry and an unpacked mirror folder, deleting the folder failed, and the
\* entry is gone while the folder is still there.
C26_Witness ==
    /\ spc = "remove"
    /\ item > 1
    /\ cur.remove = "ok"
    /\ cur.rmtree = "error"
    /\ PathOf(LinkOf(LastRemove)) \in Entries(applied[run].loaded)
    /\ PathOf(LinkOf(LastRemove)) \notin Entries(problems_data)
    /\ mirror[FolderOf(LinkOf(LastRemove))] = "unpacked"

\* The positions of main from the loading of the manifest up to the save,
\* and the end by an uncaught exception.
BeforeSave == AddPositions \cup RemovePositions \cup {"save", "raised"}

\* C30: problems.json changes in one step of a run only, the save, which
\* writes the in-memory manifest; at every position before the save the
\* file is the manifest the run loaded, and an interruption leaves the file
\* as it is.
C30_FileChangesOnlyAtSave ==
    [][ /\ (problemsJson' # problemsJson) =>
              (spc = "save" /\ problemsJson' = problems_data)
        /\ (spc' \in BeforeSave) => problemsJson' = applied'[run'].loaded
      ]_vars

\* C30, its case: a first run was interrupted after it had linked and
\* unpacked a problem and before it saved: the file is the manifest that
\* run loaded, without the problem's entry.
C30_Witness ==
    /\ spc = "crashed"
    /\ run = 1
    /\ problemsJson = applied[1].loaded
    /\ \E l \in applied[1].added :
          /\ PathOf(l) \notin Entries(problemsJson)
          /\ mirror[FolderOf(l)] = "unpacked"

\* C31: in both programs the step that follows a download lists the problem
\* (in problems_data, in all_problems) only when its mirror folder is
\* unpacked with a settings.json rewritten to the problem alias, and lists
\* nothing when the archive had no settings.json or the file could not be
\* rewritten.
C31_ListedHasSettings ==
    [][ /\ (spc = "add:download" /\ problems_data' # problems_data) =>
              /\ mirror'[FolderOf(LinkOf(data.add_problem[item]))] = "unpacked"
              /\ cur'.download = "okSettings"
        /\ (dpc = "problem" /\ all_problems' # all_problems) =>
              downloaded' = "okSettings"
      ]_vars

\* C34: every path process_add puts in the manifest is the path of the
\* mirror folder the download unpacked for that item, and every manifest
\* path process_remove takes out is the path of the folder it deleted, for
\* every alias of the items, "a+b" included.
C34_ManifestPathIsMirrorFolder ==
    [][ /\ (spc = "add:download") =>
              \A p \in Entries(problems_data') \ Entries(problems_data) :
                  /\ p \in DOMAIN mirror
                  /\ mirror'[p] \in Unpacked
        /\ (spc = "remove:local") =>
              \A p \in Entries(problems_data) \ Entries(problems_data') :
                \A f \in DOMAIN mirror :
                  (mirror[f] # "absent" /\ mirror'[f] = "absent") => f = p
      ]_vars

(***************************************************************************)
(* The manifest functions, called in any order on a loaded manifest.       *)
(***************************************************************************)
\* load_problems_json, lines 242-247: whatever paths the file lists.
StoreInit ==
    /\ DeployIdle
    /\ ZipIdle
    /\ BaselineIdle
    /\ BulkIdle
    /\ ValidateIdle
    /\ UploadIdle
    /\ SyncIdle
    /\ DownloadIdle
    /\ \E links \in SeqsUpTo(LinkUniverse, MaxStore) :
          store0 = [k \in DOMAIN links |-> PathOf(links[k])]
    /\ store = store0
    /\ storeOp = NoOp

\* add_problem_to_json, lines 255-260
StoreAdd ==
    /\ Len(store) < MaxStore + Cardinality(LinkUniverse)
    /\ \E l \in LinkUniverse :
          /\ store' = add_problem_to_json(l[1], l[2], l[3], store)
          /\ storeOp' = [op |-> "add", link |-> l, before |-> store, returned |-> None,
                         logged |-> Len(store') # Len(store)]
    /\ UNCHANGED << uploadVars, syncVars, dlVars, deployVars, zipVars, baseVars, bulkVars, valVars,
                    store0 >>

\* remove_problem_from_json, lines 263-270
StoreRemove ==
    /\ \E l \in LinkUniverse :
          /\ store' = remove_problem_from_json(l[1], l[2], l[3], store)
          /\ storeOp' = [op |-> "remove", link |-> l, before |-> store,
                         returned |-> RemoveReturns(store, store'),
                         logged |-> RemoveLogs(store, store')]
    /\ UNCHANGED << uploadVars, syncVars, dlVars, deployVars, zipVars, baseVars, bulkVars, valVars,
                    store0 >>

StoreNext ==
    \/ StoreAdd
    \/ StoreRemove

SpecStore == StoreInit /\ [][StoreNext]_vars

Distinct(problems) ==
    \A i, j \in DOMAIN problems : problems[i] = problems[j] => i = j

Count(problems, path) == Cardinality({ k \in DOMAIN problems : problems[k] = path })

\* C27: a manifest loaded with pairwise distinct paths has pairwise distinct
\* paths after every call of the two functions; after add_problem_to_json
\* for a path the manifest did not hold, the path occurs once, at the end;
\* and for a path it held once the manifest is left as it was, so that
\* adding twice leaves one entry.
C27_PathsStayUnique ==
    /\ Distinct(store0) => Distinct(store)
    /\ (storeOp.op = "add") =>
          LET path == PathOf(storeOp.link)
          IN  /\ (Count(storeOp.before, path) = 0) =>
                    (Count(store, path) = 1 /\ store = Append(storeOp.before, path))
              /\ (Count(storeOp.before, path) = 1) => store = storeOp.before

\* C27, its case: a path that had been added to a loaded manifest of
\* distinct paths was added again, and there is one entry for it.
C27_Witness ==
    /\ storeOp.op = "add"
    /\ Distinct(store0)
    /\ Len(store0) >= 2
    /\ Count(storeOp.before, PathOf(storeOp.link)) = 1
    /\ Count(store, PathOf(storeOp.link)) = 1
    /\ Len(store) > Len(store0)

\* The manifest after remove_problem_from_json is the manifest before it
\* without the entries of the given path, the others in their order.
RemovedAllInOrder ==
    LET path == PathOf(storeOp.link)
    IN  /\ Count(store, path) = 0
        /\ store = SelectSeq(storeOp.before, LAMBDA q : q # path)
        /\ \A q \in Entries(storeOp.before) \ {path} :
              Count(store, q) = Count(storeOp.before, q)

\* C28: remove_problem_from_json deletes every entry of the given path,
\* keeps the other entries in their order, and returns to its caller
\* whether an entry was removed.
C28_RemoveDeletesAndReports ==
    (storeOp.op = "remove") =>
        /\ RemovedAllInOrder
        /\ storeOp.returned =
              (IF Count(storeOp.before, PathOf(storeOp.link)) > 0 THEN "true" ELSE "false")

(***************************************************************************)
(* upload.py, createProblemZip, lines 51-94, step by step.                 *)
(***************************************************************************)
ZipInit ==
    /\ StoreIdle
    /\ DeployIdle
    /\ ValidateIdle
    /\ BaselineIdle
    /\ BulkIdle
    /\ UploadIdle
    /\ SyncIdle
    /\ DownloadIdle
    /\ validatorName \in ValidatorNames
    /\ problemDir \in SUBSET FileUniverse
    /\ archive = {}
    /\ zpc = "testplan"
    /\ zdir = 0
    /\ problemPath \in HostPaths
    /\ builds = << >>

\* lines 67-70
ZipTestplan ==
    /\ zpc = "testplan"
    /\ archive' = IF IsFile(problemDir, TESTPLAN_FILE)
                  THEN archive \cup AddFiles({TESTPLAN_FILE}, problemPath)
                  ELSE archive
    /\ zpc' = "validator"
    /\ UNCHANGED << uploadVars, syncVars, dlVars, deployVars, manVars, baseVars, bulkVars, valVars,
                    validatorName, problemDir, zdir, problemPath, builds >>

\* lines 72-86
ZipValidator ==
    /\ zpc = "validator"
    /\ IF LooksUpValidator(validatorName)
       THEN LET validators == Validators(problemDir)
            IN  IF validators = {}
                THEN /\ zpc' = "raised:missing"
                     /\ UNCHANGED << archive, zdir >>
                ELSE IF Cardinality(validators) # 1
                THEN /\ zpc' = "raised:many"
                     /\ UNCHANGED << archive, zdir >>
                ELSE /\ archive' = archive \cup AddFiles(validators, problemPath)
                     /\ zpc' = "directories"
                     /\ zdir' = 1
       ELSE /\ zpc' = "directories"
            /\ zdir' = 1
            /\ UNCHANGED archive
    /\ UNCHANGED << uploadVars, syncVars, dlVars, deployVars, manVars, baseVars, bulkVars, valVars,
                    validatorName, problemDir, problemPath, builds >>

\* lines 88-94, one directory of the two loops
ZipDirectory ==
    /\ zpc = "directories"
    /\ zdir <= Len(ZipDirectories)
    /\ archive' = IF SkipsDirectory(problemDir, zdir)
                  THEN archive
                  ELSE archive \cup AddFiles(Walk(problemDir, ZipDirectories[zdir]), problemPath)
    /\ zdir' = zdir + 1
    /\ zpc' = IF zdir = Len(ZipDirectories) THEN "done" ELSE "directories"
    /\ UNCHANGED << uploadVars, syncVars, dlVars, deployVars, manVars, baseVars, bulkVars, valVars,
                    validatorName, problemDir, problemPath, builds >>

\* uploadProblem, lines 327-328, called again for the same problem: the
\* directory is as it was, the checkout may be somewhere else.
ZipRebuild ==
    /\ zpc = "done"
    /\ Len(builds) < MaxBuilds - 1
    /\ builds' = Append(builds, [path |-> problemPath, members |-> archive])
    /\ problemPath' \in HostPaths
    /\ archive' = {}
    /\ zpc' = "testplan"
    /\ zdir' = 0
    /\ UNCHANGED << uploadVars, syncVars, dlVars, deployVars, manVars, baseVars, bulkVars, valVars,
                    validatorName, problemDir >>

ZipNext ==
    \/ ZipTestplan
    \/ ZipValidator
    \/ ZipDirectory
    \/ ZipRebuild

SpecZip == ZipInit /\ [][ZipNext]_vars

(***************************************************************************)
(* The comparison baseline, resolved in each of its two places.            *)
(***************************************************************************)
BaselineInit ==
    /\ StoreIdle
    /\ DeployIdle
    /\ ValidateIdle
    /\ UploadIdle
    /\ SyncIdle
    /\ DownloadIdle
    /\ ZipIdle
    /\ BulkIdle
    /\ env \in EnvUniverse
    /\ commitRange = None
    /\ commit_range = None

\* problems.problems, lines 171-178
ResolveInProblems ==
    /\ commitRange = None
    /\ commitRange' = ProblemsCommitRange(env)
    /\ UNCHANGED << uploadVars, syncVars, dlVars, deployVars, manVars, zipVars, bulkVars, valVars, env, commit_range >>

\* get_changed_files, lines 27-35
ResolveInValidate ==
    /\ commit_range = None
    /\ commit_range' = ValidateCommitRange(env)
    /\ UNCHANGED << uploadVars, syncVars, dlVars, deployVars, manVars, zipVars, bulkVars, valVars, env, commitRange >>

BaselineNext ==
    \/ ResolveInProblems
    \/ ResolveInValidate

SpecBaseline == BaselineInit /\ [][BaselineNext]_vars

RECURSIVE NthSlash(_, _)
\* The index of the n-th "/" of s, or 0.
NthSlash(s, n) ==
    IF n = 1 THEN SlashFrom(s, 1)
    ELSE LET before == NthSlash(s, n - 1)
         IN  IF before = 0 THEN 0 ELSE SlashFrom(s, before + 1)

HasSeventhFragment(url) == NthSlash(url, 6) # 0

\* The text between the 6th "/" of the URL and the next one, or the end.
SeventhFragment(url) ==
    LET from == NthSlash(url, 6)
        to == NthSlash(url, 7)
    IN  SubSeq(url, from + 1, IF to = 0 THEN Len(url) ELSE to - 1)

Present(value) == value \notin {None, ""}

\* The baseline the resolution order gives for the environment.
FirstAvailable ==
    IF Present(env.TRAVIS_COMMIT_RANGE) THEN env.TRAVIS_COMMIT_RANGE
    ELSE IF Present(env.CIRCLE_COMPARE_URL) THEN SeventhFragment(env.CIRCLE_COMPARE_URL)
    ELSE IF Present(env.GITHUB_BASE_COMMIT) THEN env.GITHUB_BASE_COMMIT \o "...HEAD"
    ELSE "origin/main...HEAD"

\* The compare URL is the alternative taken and has no 7th fragment.
FragmentMissing ==
    /\ ~Present(env.TRAVIS_COMMIT_RANGE)
    /\ Present(env.CIRCLE_COMPARE_URL)
    /\ ~HasSeventhFragment(env.CIRCLE_COMPARE_URL)

PrefixedEntries ==
    { RootEntryTable[f] : f \in { g \in problemDir : StartsWith(g, "validator") } }

ZipPastValidator == zpc \in {"raised:missing", "raised:many", "directories", "done"}

ZipRaised == zpc \in {"raised:missing", "raised:many"}

\* C19: with a custom validator, packaging raises when the problem root has
\* no entry, or more than one, whose name begins with "validator", and goes
\* on with exactly that entry in the archive when there is one; with another
\* validator nothing is looked up, no such entry is archived and packaging
\* does not raise.
C19_ValidatorSelection ==
    ZipPastValidator =>
        IF validatorName = "custom"
        THEN /\ (PrefixedEntries = {}) => zpc = "raised:missing"
             /\ (Cardinality(PrefixedEntries) > 1) => zpc = "raised:many"
             /\ (Cardinality(PrefixedEntries) = 1) =>
                   (~ZipRaised /\ PrefixedEntries \subseteq archive)
        ELSE ~ZipRaised /\ archive \cap PrefixedEntries = {}

\* C19, its case: a custom validator and two entries with the prefix.
C19_Witness ==
    /\ validatorName = "custom"
    /\ zpc = "raised:many"
    /\ {"validator.cpp", "validator.py"} \subseteq problemDir

\* The members the archive of a problem directory is to have.
ExpectedMembers ==
    { f \in problemDir : f = "testplan" }
        \cup (IF validatorName = "custom" THEN PrefixedEntries ELSE {})
        \cup { f \in problemDir :
                 \E d \in {"statements", "solutions", "cases", "examples", "interactive"} :
                     StartsWith(f, d \o "/") }

\* C20: a finished archive holds the test plan if there is one, the
\* validator entry if the validator is custom, and every file at any depth
\* under statements, solutions, cases, examples and interactive, and nothing
\* else (not settings.json); packaging raises only for the validator, never
\* for a directory that is missing.
C20_ArchiveMembers ==
    /\ (zpc = "done") => archive = ExpectedMembers /\ "settings.json" \notin archive
    /\ ZipRaised => (validatorName = "custom" /\ Cardinality(PrefixedEntries) # 1)
    /\ (zpc = "directories") => archive \subseteq ExpectedMembers

\* C20, its case: an archive finished for a directory with a nested case
\* file, a settings file and no statements directory.
C20_Witness ==
    /\ zpc = "done"
    /\ "cases/sub/2.in" \in archive
    /\ "settings.json" \in problemDir
    /\ ~IsDir(problemDir, STATEMENTS_DIR)
    /\ IsDir(problemDir, EXAMPLES_DIR)

\* C21: every member of the archive is named by a file's path relative to
\* the problem root: it is a path of the problem directory, it is not
\* absolute and the directory's place on the host is no part of it; and a
\* build of the same directory that finishes has the members of every build
\* finished before it, wherever those were made.
C21_RelativeAndRepeatable ==
    /\ \A m \in archive :
          /\ m \in problemDir \cup ListDir(problemDir)
          /\ ~StartsWith(m, "/")
          /\ ~Contains(m, NormPath(problemPath))
    /\ (zpc = "done") => \A k \in DOMAIN builds : builds[k].members = archive

\* C21, its case: a second build, made at another place of the host, has
\* finished with a nested case file among its members.
C21_Witness ==
    /\ zpc = "done"
    /\ Len(builds) = 1
    /\ builds[1].path # problemPath
    /\ "cases/sub/2.in" \in archive
    /\ "testplan" \in archive

(***************************************************************************)
(* upload.py _main, lines 339-404, with problems.problems, problems.py     *)
(* lines 129-194, step by step.  Nothing in _main, problems or             *)
(* uploadProblem catches an exception: the first one ends the process.     *)
(***************************************************************************)
BulkEnvs ==
    { NoEnv,
      [TRAVIS_COMMIT_RANGE |-> "", CIRCLE_COMPARE_URL |-> None,
       GITHUB_BASE_COMMIT |-> "9c0d"] }

Raised(at, exception) == [at |-> at, exception |-> exception]

BulkInit ==
    /\ StoreIdle
    /\ DeployIdle
    /\ ValidateIdle
    /\ UploadIdle
    /\ SyncIdle
    /\ DownloadIdle
    /\ ZipIdle
    /\ env \in BulkEnvs
    /\ commitRange = None
    /\ commit_range = None
    /\ args \in ArgsUniverse
    /\ manifest \in ManifestUniverse
    /\ tree \in [PathUniverse -> DirUniverse]
    /\ bpc = "start"
    /\ bk = 0
    /\ configProblems = << >>
    /\ changes = None
    /\ selected = << >>
    /\ loadResult = NoLoad
    /\ uploaded = << >>
    /\ bulkError = NoError

\* upload.py lines 386-399 and problems.py lines 138-156
BulkMain ==
    /\ bpc = "start"
    /\ bpc' = IF args.problem_paths # << >> THEN "paths" ELSE "config"
    /\ bk' = 1
    /\ UNCHANGED << uploadVars, syncVars, dlVars, deployVars, manVars, zipVars, valVars, baseVars, args, manifest, tree,
                    configProblems, changes, selected, loadResult, uploaded, bulkError >>

\* problems.py lines 144-151: one element of the list comprehension
LoadPath ==
    /\ bpc = "paths"
    /\ IF bk > Len(args.problem_paths)
       THEN /\ selected' = configProblems
            /\ bpc' = "upload"
            /\ bk' = 1
            /\ UNCHANGED << configProblems, loadResult, bulkError >>
       ELSE LET path == args.problem_paths[bk]
                outcome == LoadOutcome(tree[path])
            IN  /\ loadResult' = [path |-> path, outcome |-> outcome]
                /\ IF outcome = "Problem"
                   THEN /\ configProblems' = Append(configProblems, path)
                        /\ bk' = bk + 1
                        /\ UNCHANGED << bpc, bulkError >>
                   ELSE /\ bpc' = "raised"
                        /\ bulkError' = Raised("load", outcome)
                        /\ UNCHANGED << configProblems, bk >>
                /\ UNCHANGED selected
    /\ UNCHANGED << uploadVars, syncVars, dlVars, deployVars, manVars, zipVars, valVars, baseVars, args, manifest, tree,
                    changes, uploaded >>

\* problems.py lines 157-167: one entry of config['problems']
LoadConfig ==
    /\ bpc = "config"
    /\ IF bk > Len(manifest)
       THEN /\ IF args.all
               THEN /\ selected' = configProblems
                    /\ bpc' = "upload"
                    /\ bk' = 1
               ELSE /\ bpc' = "diff"
                    /\ UNCHANGED << selected, bk >>
            /\ UNCHANGED << configProblems, loadResult, bulkError >>
       ELSE LET problem == manifest[bk]
                outcome == LoadOutcome(tree[problem.path])
            IN  IF IsDisabled(problem)
                THEN /\ IF problem.title
                        THEN /\ bk' = bk + 1
                             /\ UNCHANGED << bpc, bulkError >>
                        ELSE /\ bpc' = "raised"
                             /\ bulkError' = Raised("config", "KeyError")
                             /\ bk' = bk
                     /\ UNCHANGED << configProblems, loadResult, selected >>
                ELSE /\ loadResult' = [path |-> problem.path, outcome |-> outcome]
                     /\ IF outcome = "Problem"
                        THEN /\ configProblems' = Append(configProblems, problem.path)
                             /\ bk' = bk + 1
                             /\ UNCHANGED << bpc, bulkError >>
                        ELSE /\ bpc' = "raised"
                             /\ bulkError' = Raised("load", outcome)
                             /\ UNCHANGED << configProblems, bk >>
                     /\ UNCHANGED selected
    /\ UNCHANGED << uploadVars, syncVars, dlVars, deployVars, manVars, zipVars, valVars, baseVars, args, manifest, tree,
                    changes, uploaded >>

\* problems.py lines 169-183
Diff ==
    /\ bpc = "diff"
    /\ commitRange' = ProblemsCommitRange(env)
    /\ \E out \in DiffOutcomes :
         IF out = "CalledProcessError"
         THEN /\ bpc' = "raised"
              /\ bulkError' = Raised("diff", out)
              /\ UNCHANGED changes
         ELSE /\ changes' = out
              /\ bpc' = "filter"
              /\ UNCHANGED bulkError
    /\ UNCHANGED << uploadVars, syncVars, dlVars, deployVars, manVars, zipVars, valVars, env, commit_range, args,
                    manifest,
                    tree, bk, configProblems, selected, loadResult, uploaded >>

\* problems.py lines 185-194
Filter ==
    /\ bpc = "filter"
    /\ selected' = SelectSeq(configProblems, LAMBDA path : Selects(path, changes))
    /\ bpc' = "upload"
    /\ bk' = 1
    /\ UNCHANGED << uploadVars, syncVars, dlVars, deployVars, manVars, zipVars, valVars, baseVars, args, manifest, tree,
                    configProblems, changes, loadResult, uploaded, bulkError >>

\* upload.py lines 397-404 with uploadProblem, lines 307-336: one problem
UploadOne ==
    /\ bpc = "upload"
    /\ IF bk > Len(selected)
       THEN /\ bpc' = "done"
            /\ UNCHANGED << bk, uploaded, bulkError >>
       ELSE LET path == selected[bk]
                outcome == UploadOutcome(tree[path])
            IN  \E remote \in {"ok", "error"} :
                  IF outcome = "remote" /\ remote = "ok"
                  THEN /\ uploaded' = Append(uploaded, path)
                       /\ bk' = bk + 1
                       /\ UNCHANGED << bpc, bulkError >>
                  ELSE /\ bpc' = "raised"
                       /\ bulkError' =
                              Raised("upload", IF outcome = "remote" THEN "remote" ELSE outcome)
                       /\ UNCHANGED << bk, uploaded >>
    /\ UNCHANGED << uploadVars, syncVars, dlVars, deployVars, manVars, zipVars, valVars, baseVars, args, manifest, tree,
                    configProblems, changes, selected, loadResult >>

(***************************************************************************)
(* validate_content.py, main, lines 151-238, step by step.                 *)
(***************************************************************************)
ValidateInit ==
    /\ StoreIdle
    /\ DeployIdle
    /\ UploadIdle
    /\ SyncIdle
    /\ DownloadIdle
    /\ ZipIdle
    /\ env \in BulkEnvs
    /\ commitRange = None
    /\ commit_range = None
    /\ args = [all |-> FALSE, problem_paths |-> << >>]
    /\ manifest \in ManifestUniverse
    /\ tree = [q \in PathUniverse |-> NoDir]
    /\ bpc = "idle"
    /\ bk = 0
    /\ configProblems = << >>
    /\ changes = None
    /\ selected = << >>
    /\ loadResult = NoLoad
    /\ uploaded = << >>
    /\ bulkError = NoError
    /\ vpc = "start"
    /\ vk = 0
    /\ changed_files = << >>
    /\ all_errors = << >>
    /\ checked_problems = 0
    /\ vExit = NotExited

\* lines 153-171 with get_changed_files, lines 21-45
ValidateMain ==
    /\ vpc = "start"
    /\ commit_range' = ValidateCommitRange(env)
    /\ \E out \in DiffOutcomes :
         /\ changes' = out
         /\ changed_files' = ChangedFilesOf(out)
         /\ IF manifest = << >>
            THEN /\ vExit' = 1                      \* lines 166-168
                 /\ vpc' = "exited"
                 /\ vk' = vk
            ELSE /\ vpc' = "problems"
                 /\ vk' = 1
                 /\ vExit' = vExit
    /\ UNCHANGED << uploadVars, syncVars, dlVars, deployVars, manVars, zipVars, env, commitRange, args, manifest,
                    tree, bpc, bk, configProblems, selected, loadResult, uploaded, bulkError,
                    all_errors, checked_problems >>

\* lines 176-217: one problem of the manifest
ValidateProblem ==
    /\ vpc = "problems"
    /\ vk <= Len(manifest)
    /\ IF ~HasChanges(manifest[vk].path, changed_files)
       THEN UNCHANGED << all_errors, checked_problems >>
       ELSE /\ checked_problems' = checked_problems + 1
            /\ \E found \in Findings : all_errors' = all_errors \o found
    /\ vk' = vk + 1
    /\ vpc' = IF vk = Len(manifest) THEN "report" ELSE "problems"
    /\ UNCHANGED << uploadVars, syncVars, dlVars, deployVars, manVars, zipVars, baseVars, bulkVars,
                    changed_files, vExit >>

\* lines 219-232
ValidateReport ==
    /\ vpc = "report"
    /\ vExit' = IF all_errors # << >> THEN 1 ELSE 0
    /\ vpc' = "exited"
    /\ UNCHANGED << uploadVars, syncVars, dlVars, deployVars, manVars, zipVars, baseVars, bulkVars,
                    vk, changed_files, all_errors, checked_problems >>

ValidateNext ==
    \/ ValidateMain
    \/ ValidateProblem
    \/ ValidateReport

\* upload.py lines 407-408: _main returns (status 0) or an exception nobody
\* caught ends the process (status 1).
BulkExitStatus == IF bpc = "raised" THEN 1 ELSE 0

BulkNext ==
    \/ BulkMain
    \/ LoadPath
    \/ LoadConfig
    \/ Diff
    \/ Filter
    \/ UploadOne

\* The two programs that work from the manifest and the diff, each run once.
ManifestToolsInit == BulkInit \/ ValidateInit

SpecBulk == ManifestToolsInit /\ [][BulkNext \/ ValidateNext]_vars

(***************************************************************************)
(* Properties of change-set selection, the bulk upload and the content     *)
(* validation.                                                             *)
(***************************************************************************)
ExplicitMode == bpc # "idle" /\ args.problem_paths # << >>

AllMode == bpc # "idle" /\ args.problem_paths = << >> /\ args.all

ChangedMode == bpc # "idle" /\ args.problem_paths = << >> /\ ~args.all

\* problems.problems has returned its list to _main.
Returned == bpc \in {"upload", "done"} \/ bulkError.at = "upload"

\* The paths of the manifest entries not flagged disabled, in manifest order.
EnabledPaths ==
    LET enabled == SelectSeq(manifest, LAMBDA e : e.disabled # "true")
    IN  [k \in DOMAIN enabled |-> enabled[k].path]

\* The file paths the diff reported.
DiffedFiles == { SplitLinesTable[changes][k] : k \in DOMAIN SplitLinesTable[changes] }

\* C12: in changed mode the selection is the non-disabled manifest entries
\* whose path is a prefix of a file path the diff reported, in manifest
\* order (none when no diffed file lies under a manifest path); a path that
\* occurs only inside a diffed file path is not selected.
C12_SelectsByPrefix ==
    (ChangedMode /\ Returned) =>
        selected = SelectSeq(EnabledPaths,
                             LAMBDA q : \E f \in DiffedFiles : StartsWith(f, q))

\* Every entry of the manifest that is not disabled has a settings file
\* that loads.
EnabledLoad ==
    \A k \in DOMAIN manifest :
        manifest[k].disabled # "true" => LoadOutcome(tree[manifest[k].path]) = "Problem"

\* C13: in all mode, for every manifest whose enabled entries load, the
\* selection returns the entries not flagged disabled, in manifest order,
\* and does not fail; with explicit paths it returns exactly those paths,
\* and neither the manifest nor the diff is used.
C13_AllAndExplicit ==
    /\ (AllMode /\ EnabledLoad) =>
          /\ bulkError.at \notin {"config", "load", "diff"}
          /\ Returned => selected = EnabledPaths
          /\ changes = None
    /\ (ExplicitMode /\ Returned) =>
          /\ selected = args.problem_paths
          /\ changes = None

\* C15: when the diff command fails the run ends with a failure status and
\* no change set is processed: the bulk upload uploads nothing, and the
\* content validation does not exit with success.
C15_DiffFailureAborts ==
    /\ (bulkError.at = "diff") => (BulkExitStatus # 0 /\ uploaded = << >>)
    /\ (vpc = "exited" /\ changes = "CalledProcessError") => vExit # 0

\* The paths in scope of the run, when it got as far as knowing them.
InScope ==
    IF ExplicitMode THEN { args.problem_paths[k] : k \in DOMAIN args.problem_paths }
    ELSE IF AllMode THEN { EnabledPaths[k] : k \in DOMAIN EnabledPaths }
    ELSE IF changes = None THEN {}
    ELSE { EnabledPaths[k] : k \in DOMAIN EnabledPaths } \cap ContainsTable[changes]

\* A problem directory that loads and packages.
Healthy(path) ==
    LoadOutcome(tree[path]) = "Problem" /\ UploadOutcome(tree[path]) = "remote"

\* The remote calls of the upload of this problem failed.
RemoteFailedFor(path) ==
    /\ bulkError = Raised("upload", "remote")
    /\ selected[bk] = path

\* C16: when the bulk upload has stopped, for another reason than the
\* manifest or the diff, every problem of the change set that loads,
\* packages and met no remote failure has been uploaded: a failure confined
\* to one problem skipped that problem only.
C16_FailureSkipsOneProblem ==
    (bpc \in {"done", "raised"} /\ bulkError.at \notin {"config", "diff"}) =>
          \A q \in InScope :
              (Healthy(q) /\ ~RemoteFailedFor(q)) => \E k \in DOMAIN uploaded : uploaded[k] = q

\* C17: a run of the course-sync workflow that went through to the
\* clearing of the request file, and in which an item failed (a rejected
\* course, a failed remote add or remove, a failed download), ends with a
\* status that is not zero.
C17_ExitStatusTellsFailure ==
    (spc = "done" /\ cur.clear = "ok" /\ SyncItemFailed) => SyncExitStatus # 0

\* C18: Problem.load raises FileNotFoundError when settings.json is absent,
\* raises ValueError when it is not JSON and when it lacks "title" or
\* "alias", and returns a Problem only when it parses and has both.
C18_LoadErrors ==
    (loadResult.path # None) =>
        LET dir == tree[loadResult.path]
        IN  /\ (dir.file = "absent") => loadResult.outcome = "FileNotFoundError"
            /\ (dir.file = "notJson") => loadResult.outcome = "ValueError"
            /\ (dir.file = "json" /\ (~dir.title \/ ~dir.alias)) =>
                  loadResult.outcome = "ValueError"
            /\ (loadResult.outcome = "Problem") =>
                  (dir.file = "json" /\ dir.title /\ dir.alias)

\* The manifest paths the filter of validate_content.py keeps for the diff
\* output out.
ValidationKeeps(out) ==
    { manifest[k].path : k \in { j \in DOMAIN manifest :
                                   HasChanges(manifest[j].path, ChangedFilesOf(out)) } }

\* The manifest paths the filter of problems.py keeps for the diff output out.
UploadKeeps(out) ==
    { q \in Entries(EnabledPaths) : Selects(q, out) }

\* C35: on the same manifest and the same diff output, the changed-mode
\* selection of problems.py and the changed-problem filter of
\* validate_content.py keep the same set of manifest paths: what the upload
\* selected is what the validation would keep, and the validation checked as
\* many problems as the upload would select.
C35_SameSelection ==
    /\ (ChangedMode /\ Returned) => Entries(selected) = ValidationKeeps(changes)
    /\ (vpc \in {"report", "exited"} /\ changes \in DiffOutputs) =>
          checked_problems = Cardinality(UploadKeeps(changes))

=============================================================================
